---------------------------- MODULE Spec2Model ----------------------------
(***************************************************************************)
(* A model of the retro pixel display (src/src/pixel-display.js) and of    *)
(* the Pong game loop that drives it (src/src/demo.js).                    *)
(*                                                                         *)
(* These specifications share the module:                                  *)
(*   SpecDegauss        the degauss controller: degauss(), render() expiry *)
(*   SpecDegaussLive    the same controller under fair render() calls      *)
(*   SpecGrid           the pixel grid, its fade model and the court layer *)
(*   SpecGame           the game state machine and the gameLoop            *)
(*   SpecCountdown      one countdown, drawCountdown() call by call        *)
(*   SpecCountdownLive  the countdown under fair frame callbacks           *)
(*   SpecSample         the sampling loop of render()'s degauss path       *)
(*   SpecCanDraw        _canDrawPixel                                      *)
(*   SpecSteps          the updateLogic steps of one game                  *)
(*   SpecPaddle         updatePaddle                                       *)
(*   SpecRally          the paddle hits of a rally                         *)
(*   SpecBall           checkGameEnd, updateBall, checkPaddleCollision     *)
(*   SpecLoop           the display's render loop: start() and stop()      *)
(*                                                                         *)
(* Time is an integer number of milliseconds.  Real-valued quantities are  *)
(* kept exact as integer numerators over a stated denominator.             *)
(***************************************************************************)
EXTENDS Integers, Sequences, FiniteSets, TLC

VARIABLES
    now,                  \* the clock: getTime() / performance.now(), in ms
    lastOp,               \* the operation the last step performed
    \* ---- PixelDisplay: degauss controller
    lastDegaussEndTime,   \* ms; 0 = never
    degaussStartTime,     \* ms; 0 = not running
    degaussDuration,      \* ms of the current run, rounded up to the clock grain
    degaussStrength,      \* strength of the current run, in hundredths, rounded down
    degaussX,             \* numerator of the x the current run's strength came from
    lastRunStart,         \* history: when the latest run started; -1 = no run yet
    frameOut,             \* what the last render() composed
    \* ---- PixelDisplay: pixel grid
    pixels,               \* <<x, y>> -> [state, onTimestamp, offTimestamp]
    gridOps,              \* number of grid operations performed so far
    offAtClear,           \* history: the cells that were OFF when clear() last
                          \* ran and have not been turned ON since
    courtDrawn,           \* history: maintainCourt() has run, and only draw
                          \* operations have run since
    litAtClear,           \* history: <<cell, t>> for the cells that were ON when
                          \* clear() ran at t and have not been turned ON since
    \* ---- Pong and the gameLoop closure
    game,                 \* the Pong object: a record of its fields
    keysDown,             \* the keys the KeyboardControllers hold as pressed
    accumulator,          \* gameLoop's accumulator, in ms * LOGIC_HZ
    prevGameState,        \* gameLoop's prevGameState; "null" before the first frame
    lastTs,               \* gameLoop's lastTs: FALSE while it is still 0
    inputs,               \* number of key and mouse events so far
    pausedAt,             \* history: what pauseGame() saved, kept until the
                          \* resume countdown ends; <<>> otherwise
    countdownMs,          \* history (SpecCountdown): ms since the countdown
                          \* started, up to three windows
    \* ---- PixelDisplay: render loop
    isRunning,            \* this.isRunning
    animationFrameId,     \* this.animationFrameId; 0 is null
    rafPending,           \* handles of the callbacks the browser has scheduled
    rafNextId,            \* the handle the next requestAnimationFrame returns
    framesRendered        \* history: number of render() calls of the loop

degaussVars == <<lastDegaussEndTime, degaussStartTime, degaussDuration,
                 degaussStrength, degaussX, lastRunStart, frameOut>>

gridVars == <<pixels, gridOps, offAtClear, courtDrawn, litAtClear>>

gameVars == <<game, keysDown, accumulator, prevGameState, lastTs, inputs,
              pausedAt, countdownMs>>

loopVars == <<isRunning, animationFrameId, rafPending, rafNextId, framesRendered>>

vars == <<now, lastOp, degaussVars, gridVars, gameVars, loopVars>>

Max(a, b) == IF a >= b THEN a ELSE b
Min(a, b) == IF a <= b THEN a ELSE b

(***************************************************************************)
(* Constants of src/unnamed/part_000 (constants.js).                       *)
(***************************************************************************)
DEGAUSS_COOLDOWN_MS == 30000
DEGAUSS_COOLDOWN_MIN_MS == 1000
DEGAUSS_DURATION_BASE_MS == 2000

(***************************************************************************)
(* The degauss controller.                                                 *)
(*                                                                         *)
(* The clock of SpecDegauss moves in grains of DegaussGrainMs, which       *)
(* divides the three constants above, so every elapsed time the code       *)
(* computes is a whole number of grains.  x = XNum / XDen.                 *)
(***************************************************************************)
DegaussGrainMs == DEGAUSS_COOLDOWN_MIN_MS

\* x with the elapsed time divided by the full cooldown instead of by
\* (full - min)
XDenFull == DEGAUSS_COOLDOWN_MS

XDen == DEGAUSS_COOLDOWN_MS - DEGAUSS_COOLDOWN_MIN_MS

\* elapsed since last end; "never" (0) is treated as a full cooldown
DegaussElapsed(t, lastEnd) ==
    IF lastEnd = 0 THEN DEGAUSS_COOLDOWN_MS ELSE t - lastEnd

\* x = max(0, min(1, (elapsed - min) / (full - min))), as a numerator over XDen
XNum(elapsed) == Max(0, Min(XDen, elapsed - DEGAUSS_COOLDOWN_MIN_MS))

Grains(ms) == ms \div DegaussGrainMs

Cube(n) == n * n * n

\* Math.pow(x, 1.5) in hundredths, rounded down: the greatest s with
\* (s/100)^2 <= (xn/XDen)^3.  strength < 0.01 iff StrengthPct = 0.
StrengthPct(xn) ==
    CHOOSE s \in 0..100 :
        /\ s * s * Cube(Grains(XDen)) <= 10000 * Cube(Grains(xn))
        /\ (s + 1) * (s + 1) * Cube(Grains(XDen)) > 10000 * Cube(Grains(xn))

\* DEGAUSS_DURATION_BASE_MS * strength, rounded up to whole grains: the least
\* k with (k/base)^2 >= (xn/XDen)^3.  For a clock that moves in grains,
\* "t - start < duration" is decided by the rounded value exactly as by the
\* real one.
DurationMs(xn) ==
    LET base == Grains(DEGAUSS_DURATION_BASE_MS)
        k == CHOOSE k \in 0..base :
                /\ k * k * Cube(Grains(XDen)) >= base * base * Cube(Grains(xn))
                /\ k > 0 => (k - 1) * (k - 1) * Cube(Grains(XDen))
                                < base * base * Cube(Grains(xn))
    IN  k * DegaussGrainMs

\* The state of the controller as a record, so that degauss() and render()
\* are functions of it.
DegaussState ==
    [lastEnd |-> lastDegaussEndTime, start |-> degaussStartTime,
     duration |-> degaussDuration, strength |-> degaussStrength, x |-> degaussX]

\* The strength degauss() computes at time t from lastEndTime, in hundredths
CallStrength(lastEnd, t) == StrengthPct(XNum(DegaussElapsed(t, lastEnd)))

\* No stacking: the animation is still running at time t
DegaussRunning(d, t) == d.start # 0 /\ (t - d.start) < d.duration

\* degauss() without the no-stacking guard
DegaussCallStacking(d, t) ==
    LET xn == XNum(DegaussElapsed(t, d.lastEnd))
        strength == StrengthPct(xn)
    IN  IF strength < 1 THEN [d EXCEPT !.lastEnd = t]
        ELSE [d EXCEPT !.start = t, !.duration = DurationMs(xn),
                       !.strength = strength, !.x = xn]

\* degauss() whose weak branch returns without advancing the cooldown clock
DegaussCallNoAdvance(d, t) ==
    LET xn == XNum(DegaussElapsed(t, d.lastEnd))
        strength == StrengthPct(xn)
    IN  IF DegaussRunning(d, t) THEN d
        ELSE IF strength < 1 THEN d
        ELSE [d EXCEPT !.start = t, !.duration = DurationMs(xn),
                       !.strength = strength, !.x = xn]

\* PixelDisplay.degauss() called at time t
DegaussCall(d, t) ==
    LET xn == XNum(DegaussElapsed(t, d.lastEnd))
        strength == StrengthPct(xn)
    IN  IF DegaussRunning(d, t) THEN d
        ELSE IF strength < 1 THEN [d EXCEPT !.lastEnd = t]
        ELSE [d EXCEPT !.start = t, !.duration = DurationMs(xn),
                       !.strength = strength, !.x = xn]

\* render() without the end check
DegaussEndCheckSkipped(d, t) == d

\* render(): the end check that runs before compositing
DegaussEndCheck(d, t) ==
    IF d.start # 0 /\ (t - d.start) >= d.duration
    THEN [d EXCEPT !.start = 0, !.lastEnd = t]
    ELSE d

\* render(): which path composes the frame and whether the overlay is drawn
RenderOut(d) ==
    LET degaussActive == d.start # 0
    IN  [path |-> IF degaussActive THEN "degauss" ELSE "idle",
         overlay |-> degaussActive]

MaxDegaussNow == 34000

ClockSteps == {DegaussGrainMs, DEGAUSS_DURATION_BASE_MS, DEGAUSS_COOLDOWN_MS}

SetDegauss(d) ==
    /\ lastDegaussEndTime' = d.lastEnd
    /\ degaussStartTime' = d.start
    /\ degaussDuration' = d.duration
    /\ degaussStrength' = d.strength
    /\ degaussX' = d.x

InitDegauss ==
    /\ lastDegaussEndTime = 0
    /\ degaussStartTime = 0
    /\ degaussDuration = 0
    /\ degaussStrength = 0
    /\ degaussX = 0
    /\ lastRunStart = -1
    /\ frameOut = [path |-> "none", overlay |-> FALSE]

\* Space key: degauss() at the current time
Degauss ==
    LET d == DegaussCall(DegaussState, now)
        \* the call entered Active (startTime = now, and 0 means Idle)
        started == d # DegaussState /\ d.start = now /\ now # 0
    IN  /\ SetDegauss(d)
        /\ lastRunStart' = IF started THEN now ELSE lastRunStart
        /\ lastOp' = [name |-> "degauss"]
        /\ UNCHANGED <<loopVars, now, frameOut, gridVars, gameVars>>

\* A frame: render() at the current time
Render ==
    LET d == DegaussEndCheck(DegaussState, now)
    IN  /\ SetDegauss(d)
        /\ frameOut' = RenderOut(d)
        /\ lastOp' = [name |-> "render"]
        /\ UNCHANGED <<loopVars, now, lastRunStart, gridVars, gameVars>>

\* The monotonic clock advances
TickDegauss ==
    \E step \in ClockSteps :
        /\ now + step <= MaxDegaussNow
        /\ now' = now + step
        /\ lastOp' = [name |-> "tick"]
        /\ UNCHANGED <<loopVars, degaussVars, gridVars, gameVars>>

(***************************************************************************)
(* The pixel grid and the fade model.                                      *)
(*                                                                         *)
(* Coordinates and sizes are integers (Math.floor is the identity on       *)
(* them).  A brightness is an integer numerator over BrightDen.  The clock *)
(* of SpecGrid moves in grains of FadeGrainMs, which divides both fade     *)
(* times.                                                                  *)
(***************************************************************************)
CRT_FADE_IN_MS == 50
CRT_FADE_OUT_MS == 200

emulatedWidth == 2
emulatedHeight == 4

Cells == (0..(emulatedWidth - 1)) \X (0..(emulatedHeight - 1))

FreshPixel == [state |-> FALSE, onTimestamp |-> 0, offTimestamp |-> 0]

InBounds(x, y) == x >= 0 /\ x < emulatedWidth /\ y >= 0 /\ y < emulatedHeight

\* setPixel without the "state differs" test: stamps on every write
SetCellAlwaysStamp(p, state, t) ==
    IF state THEN [p EXCEPT !.state = state, !.onTimestamp = t]
    ELSE [p EXCEPT !.state = state, !.offTimestamp = t]

\* setPixel that stamps both timestamps when the state changes
SetCellStampBoth(p, state, t) ==
    IF p.state # state
    THEN [p EXCEPT !.state = state, !.onTimestamp = t, !.offTimestamp = t]
    ELSE p

\* setPixel on one (in-range) cell at time t
SetCell(p, state, t) ==
    IF p.state # state
    THEN IF state THEN [p EXCEPT !.state = state, !.onTimestamp = t]
         ELSE [p EXCEPT !.state = state, !.offTimestamp = t]
    ELSE p

\* setPixel that clamps its coordinates to the grid instead of dropping the
\* call
SetPixelAtClamped(px, x, y, state, t) ==
    LET cx == Max(0, Min(emulatedWidth - 1, x))
        cy == Max(0, Min(emulatedHeight - 1, y))
    IN  [px EXCEPT ![<<cx, cy>>] = SetCell(@, state, t)]

\* setPixel(x, y, state) at time t
SetPixelAt(px, x, y, state, t) ==
    IF InBounds(x, y) THEN [px EXCEPT ![<<x, y>>] = SetCell(@, state, t)] ELSE px

\* getPixel(x, y)
GetPixel(px, x, y) == IF InBounds(x, y) THEN px[<<x, y>>].state ELSE FALSE

\* setPixel(c, true) for every coordinate c of S, all at time t; the writes
\* are independent, and setPixel drops the coordinates outside the grid
SetPixelsOn(px, S, t) ==
    [c \in Cells |-> IF c \in S THEN SetCell(px[c], TRUE, t) ELSE px[c]]

\* The rectangle loop bounds shared by drawRectFilled and clearRect
RectLoop(x, y, w, h) ==
    LET x0 == Max(0, x)
        y0 == Max(0, y)
        x1 == Min(emulatedWidth, x0 + Max(0, w))
        y1 == Min(emulatedHeight, y0 + Max(0, h))
    IN  (x0..(x1 - 1)) \X (y0..(y1 - 1))

\* drawRectFilled(x, y, w, h): the coordinates it passes to setPixel
DrawRectFilledCells(x, y, w, h) == RectLoop(x, y, w, h)

\* drawRectOutline(x, y, w, h, {preserve}): preserve(px, py) is true on P
DrawRectOutlineCells(x, y, w, h, P) ==
    LET x0 == x
        y0 == y
        x1 == x + w - 1
        y1 == y + h - 1
    IN  ({<<px, y0>> : px \in x0..x1} \cup {<<px, y1>> : px \in x0..x1} \cup
         {<<x0, py>> : py \in y0..y1} \cup {<<x1, py>> : py \in y0..y1}) \ P

\* drawLineH(y, x0, x1)
DrawLineHCells(y, xa, xb) ==
    IF y < 0 \/ y >= emulatedHeight THEN {}
    ELSE {<<px, y>> : px \in Max(0, Min(xa, xb))..Min(emulatedWidth - 1, Max(xa, xb))}

\* drawLineV(x, y0, y1)
DrawLineVCells(x, ya, yb) ==
    IF x < 0 \/ x >= emulatedWidth THEN {}
    ELSE {<<x, py>> : py \in Max(0, Min(ya, yb))..Min(emulatedHeight - 1, Max(ya, yb))}

\* drawLineVDashed(x, y0, y1, stride)
DrawLineVDashedCells(x, ya, yb, stride) ==
    IF x < 0 \/ x >= emulatedWidth THEN {}
    ELSE LET s == Max(1, stride)
             a == Min(ya, yb)
             b == Max(ya, yb)
         IN  {<<x, py>> : py \in {q \in a..b : (q - a) % s = 0
                                               /\ q >= 0 /\ q < emulatedHeight}}

\* drawPattern(pattern, x, y, scale) with scale = scale2 / 2
DrawPatternCells(pattern, x, y, scale2) ==
    LET s2 == Max(2, scale2)
        rows == Len(pattern)
        cols == IF rows = 0 THEN 0 ELSE Len(pattern[1])
        outW == Max(1, (cols * s2 + 1) \div 2)
        outH == Max(1, (rows * s2 + 1) \div 2)
        srcRow(oy) == Min(rows - 1, (2 * oy) \div s2)
        srcCol(ox) == Min(cols - 1, (2 * ox) \div s2)
    IN  IF rows = 0 \/ cols = 0 THEN {}
        ELSE {<<x + o[1], y + o[2]>> :
                 o \in {q \in (0..(outW - 1)) \X (0..(outH - 1)) :
                           pattern[srcRow(q[2]) + 1][srcCol(q[1]) + 1] = 1}}

\* clearRect(x, y, w, h, {preserve}) at time t
ClearRectPx(px, x, y, w, h, P, t) ==
    [c \in Cells |->
        IF c \in RectLoop(x, y, w, h) /\ c \notin P
        THEN [px[c] EXCEPT !.state = FALSE, !.offTimestamp = t]
        ELSE px[c]]

\* clear() that backdates the offTimestamp of every cell, the lit ones
\* included
ClearPxBackdateAll(px, t) ==
    LET alreadyFaded == t - CRT_FADE_OUT_MS - 1
    IN  [c \in Cells |->
            [px[c] EXCEPT !.state = FALSE, !.offTimestamp = alreadyFaded]]

\* clear() at time t
ClearPx(px, t) ==
    LET alreadyFaded == t - CRT_FADE_OUT_MS - 1
    IN  [c \in Cells |->
            [px[c] EXCEPT !.state = FALSE,
                          !.offTimestamp = IF px[c].state THEN t ELSE alreadyFaded]]

FadeGrainMs == CRT_FADE_IN_MS \div 2
FadeInGrains == CRT_FADE_IN_MS \div FadeGrainMs
FadeOutGrains == CRT_FADE_OUT_MS \div FadeGrainMs

Pow6(n) == n * n * n * n * n * n

\* The denominator of every brightness: 1.0 is BrightDen
BrightDen == FadeInGrains * Pow6(FadeOutGrains)

\* onElapsed / fadeInTime, for an elapsed time on the grain
FadeInRamp(onElapsed) == (onElapsed \div FadeGrainMs) * Pow6(FadeOutGrains)

\* The fade-out curve with exponent 2 instead of 6, over the same denominator
FadeOutCurveSquare(offElapsed) ==
    LET r == FadeOutGrains - (offElapsed \div FadeGrainMs)
    IN  FadeInGrains * r * r * (Pow6(FadeOutGrains) \div (FadeOutGrains * FadeOutGrains))

\* Math.pow(1 - offElapsed / fadeOutTime, 6), for an elapsed time on the grain
FadeOutCurve(offElapsed) ==
    FadeInGrains * Pow6(FadeOutGrains - (offElapsed \div FadeGrainMs))

\* calculateBrightness without the final Math.min(1.0, ...)
CalculateBrightnessUnclipped(pixel, currentTime) ==
    LET onElapsed == currentTime - pixel.onTimestamp
        offElapsed == currentTime - pixel.offTimestamp
        fadeInBrightness ==
            IF pixel.onTimestamp > 0 /\ pixel.state
            THEN IF onElapsed < CRT_FADE_IN_MS THEN FadeInRamp(onElapsed)
                 ELSE BrightDen
            ELSE 0
        fadeOutBrightness ==
            IF pixel.offTimestamp > 0 /\ offElapsed < CRT_FADE_OUT_MS
            THEN FadeOutCurve(offElapsed)
            ELSE 0
    IN  Max(fadeInBrightness, fadeOutBrightness)

\* calculateBrightness(pixel, currentTime)
CalculateBrightness(pixel, currentTime) ==
    LET onElapsed == currentTime - pixel.onTimestamp
        offElapsed == currentTime - pixel.offTimestamp
        fadeInBrightness ==
            IF pixel.onTimestamp > 0 /\ pixel.state
            THEN IF onElapsed < CRT_FADE_IN_MS THEN FadeInRamp(onElapsed)
                 ELSE BrightDen
            ELSE 0
        fadeOutBrightness ==
            IF pixel.offTimestamp > 0 /\ offElapsed < CRT_FADE_OUT_MS
            THEN FadeOutCurve(offElapsed)
            ELSE 0
    IN  Min(BrightDen, Max(fadeInBrightness, fadeOutBrightness))

InitGrid ==
    /\ pixels = [c \in Cells |-> FreshPixel]
    /\ gridOps = 0
    /\ offAtClear = {}
    /\ courtDrawn = FALSE
    /\ litAtClear = {}


(***************************************************************************)
(* Pong (src/src/demo.js) and its constants (constants.js)                 *)
(*                                                                         *)
(* Positions and velocities are JS numbers; here they are fixed-point      *)
(* integers, FP to the pixel, and a product that is scaled back is rounded *)
(* to the nearest unit.  The speed multiplier 1 + volleyCount * 0.0025 is  *)
(* the numerator SpeedNum over SpeedDen.  The court is width x height      *)
(* pixels (the display's emulated size).  Time is kept relative: the       *)
(* countdown holds the time elapsed since countdownStartTime, and the      *)
(* accumulator holds ms * LOGIC_HZ, so that DT_MS = 1000 / LOGIC_HZ is the *)
(* integer DtNum.  What the game draws is not part of this record.         *)
(***************************************************************************)
GOALS_TO_WIN == 5
LOGIC_HZ == 60
DtNum == 1000
MAX_FRAME_MS == 200
MAX_UPDATES_PER_FRAME == 5
PADDLE_WIDTH == 2
PADDLE_HEIGHT == 14
PADDLE_EDGE_OFFSET == 2
countdownDuration == 750

FP == 1000
PADDLE_SPEED == (18 * FP) \div 10
BALL_SPEED == FP
SpeedDen == 400
MaxSpeedNum == 2 * SpeedDen

\* The court.  The page runs on 160 x 120 (new PixelDisplay(canvas, 160, 120,
\* ...)); Pong takes its size from the display it is given.  On a court this
\* narrow both paddles stand behind the goal lines, so a serve ends in a goal
\* after two steps and a game reaches GAME_OVER within a few callbacks.
\* 16 is the smallest height at which the paddle clamp has a solution
\* (1 <= y and y + PADDLE_HEIGHT <= height - 1).
width == 2
height == 16

PADDLE_LEFT_X == PADDLE_EDGE_OFFSET
PADDLE_RIGHT_X == width - 4

Abs(a) == IF a >= 0 THEN a ELSE -a

\* a / b rounded to the nearest integer, halves away from zero (b > 0)
RoundDiv(a, b) ==
    IF a >= 0 THEN (2 * a + b) \div (2 * b) ELSE -((2 * (-a) + b) \div (2 * b))

\* Math.floor(height / 2 - PADDLE_HEIGHT / 2), in fixed point
PaddleStartY ==
    (((height * FP) \div 2 - (PADDLE_HEIGHT * FP) \div 2) \div FP) * FP

BallStartX == (width \div 2) * FP
BallStartY == (height \div 2) * FP

\* The Pong object after its constructor
NewGame ==
    [gameState |-> "MENU",
     countdownNumber |-> 3,
     countdownElapsed |-> 0,
     winner |-> "null",
     winning |-> FALSE,
     gameOverViaDebugKey |-> FALSE,
     debugGameOverVariant |-> "null",
     savedState |-> <<>>,
     resumingFromPause |-> FALSE,
     volleyCount |-> 0,
     speedNum |-> SpeedDen,
     rightPlayerOption |-> 2,
     aiDifficultyLevel |-> 2,
     leftPaddle |-> PaddleStartY,
     rightPaddle |-> PaddleStartY,
     ball |-> [x |-> BallStartX, y |-> BallStartY, vx |-> 0, vy |-> 0],
     score |-> [left |-> 0, right |-> 0],
     leftController |-> "keyboard1P",
     rightController |-> "ai",
     startButtonBounds |-> FALSE,
     restartButtonBounds |-> FALSE]

\* The velocities resetBall can serve: speed variation 0 and the angle
\* atan2(0.6, 0.8) = 36.87 degrees, which is inside 34.99 +- 5 degrees, to
\* the left or to the right
ServeOutcomes ==
    {<<dir * ((8 * BALL_SPEED) \div 10), (6 * BALL_SPEED) \div 10>> : dir \in {-1, 1}}

\* The velocities AIController.update can add to paddle.y: it clamps
\* currentVelocity to +-0.71 * paddle.speed before it moves the paddle
AiMaxSpeed == (71 * PADDLE_SPEED) \div 100
AiVelocities == {-AiMaxSpeed, AiMaxSpeed}

\* resetBall() with the random draws giving the velocity serve
ResetBall(g, serve) ==
    [g EXCEPT !.ball = [x |-> BallStartX, y |-> BallStartY,
                        vx |-> serve[1], vy |-> serve[2]],
              !.volleyCount = 0,
              !.speedNum = SpeedDen]

\* KeyboardController.update: "up", "down" or "null"
KeyboardDirection(controller, keys) ==
    LET upKeys == IF controller = "keyboard1P" THEN {"ArrowUp", "w"}
                  ELSE IF controller = "keyboardLeft2P" THEN {"w"}
                  ELSE {"ArrowUp"}
        downKeys == IF controller = "keyboard1P" THEN {"ArrowDown", "s"}
                    ELSE IF controller = "keyboardLeft2P" THEN {"s"}
                    ELSE {"ArrowDown"}
    IN  IF upKeys \cap keys # {} THEN "up"
        ELSE IF downKeys \cap keys # {} THEN "down"
        ELSE "null"

\* The clamp without its second test: the top wall only
ConstrainPaddleTopOnly(y, h) == IF y < FP THEN FP ELSE y

\* The clamp at the end of updatePaddle, on a court of height h
ConstrainPaddleOn(y, h) ==
    LET y1 == IF y < FP THEN FP ELSE y
    IN  IF y1 + PADDLE_HEIGHT * FP > (h - 1) * FP
        THEN (h - 1 - PADDLE_HEIGHT) * FP
        ELSE y1

\* The clamp on the court of the model
ConstrainPaddle(y) == ConstrainPaddleOn(y, height)

\* updatePaddle(paddle, controller) on a paddle at y; ai is the velocity an
\* AIController applies
UpdatePaddle(y, controller, keys, ai) ==
    LET direction == KeyboardDirection(controller, keys)
        moved == IF controller = "ai" THEN y + ai
                 ELSE IF direction = "up" THEN y - PADDLE_SPEED
                 ELSE IF direction = "down" THEN y + PADDLE_SPEED
                 ELSE y
    IN  ConstrainPaddle(moved)

\* The range tests with closed upper ends
PaddleHitInclusive(b, px, py) ==
    /\ b.x >= px * FP /\ b.x <= (px + PADDLE_WIDTH) * FP
    /\ b.y >= py /\ b.y <= py + PADDLE_HEIGHT * FP

\* Is the ball inside the paddle at (px, py)?
PaddleHit(b, px, py) ==
    /\ b.x >= px * FP /\ b.x < (px + PADDLE_WIDTH) * FP
    /\ b.y >= py /\ b.y < py + PADDLE_HEIGHT * FP

\* checkPaddleCollision(paddle)
CheckPaddleCollision(g, px, py) ==
    IF PaddleHit(g.ball, px, py)
    THEN LET volley == g.volleyCount + 1
             sm == Min(SpeedDen + volley, MaxSpeedNum)
             vx1 == RoundDiv((-g.ball.vx) * sm, SpeedDen)
             \* angle * PADDLE_HEIGHT, in fixed point
             angleH == 2 * (g.ball.y - py) - PADDLE_HEIGHT * FP
             base == RoundDiv(Abs(angleH) * 8 * (BALL_SPEED \div FP), 10)
             vyMag == RoundDiv(base * sm, PADDLE_HEIGHT * SpeedDen)
             vx2 == IF Abs(vx1) < FP \div 2
                    THEN (IF vx1 > 0 THEN FP \div 2 ELSE -(FP \div 2))
                    ELSE vx1
         IN  [g EXCEPT !.volleyCount = volley,
                       !.speedNum = sm,
                       !.ball.vx = vx2,
                       !.ball.vy = IF angleH >= 0 THEN vyMag ELSE -vyMag]
    ELSE g

\* updateBall() that credits a goal to the side that conceded it
UpdateBallSwappedScores(g, serve) ==
    LET x1 == g.ball.x + g.ball.vx
        y1 == g.ball.y + g.ball.vy
        top == y1 <= FP
        y2 == IF top THEN FP ELSE y1
        vy2 == IF top THEN -g.ball.vy ELSE g.ball.vy
        bottom == y2 >= (height - 2) * FP
        y3 == IF bottom THEN (height - 2) * FP ELSE y2
        vy3 == IF bottom THEN -vy2 ELSE vy2
        moved == [g EXCEPT !.ball = [x |-> x1, y |-> y3, vx |-> g.ball.vx, vy |-> vy3]]
        hitL == CheckPaddleCollision(moved, PADDLE_LEFT_X, moved.leftPaddle)
        hitR == CheckPaddleCollision(hitL, PADDLE_RIGHT_X, hitL.rightPaddle)
    IN  IF hitR.ball.x < 0
        THEN ResetBall([hitR EXCEPT !.score.left = @ + 1], serve)
        ELSE IF hitR.ball.x >= width * FP
        THEN ResetBall([hitR EXCEPT !.score.right = @ + 1], serve)
        ELSE hitR

\* updateBall() with the serve a goal's resetBall draws
UpdateBall(g, serve) ==
    LET x1 == g.ball.x + g.ball.vx
        y1 == g.ball.y + g.ball.vy
        top == y1 <= FP
        y2 == IF top THEN FP ELSE y1
        vy2 == IF top THEN -g.ball.vy ELSE g.ball.vy
        bottom == y2 >= (height - 2) * FP
        y3 == IF bottom THEN (height - 2) * FP ELSE y2
        vy3 == IF bottom THEN -vy2 ELSE vy2
        moved == [g EXCEPT !.ball = [x |-> x1, y |-> y3, vx |-> g.ball.vx, vy |-> vy3]]
        hitL == CheckPaddleCollision(moved, PADDLE_LEFT_X, moved.leftPaddle)
        hitR == CheckPaddleCollision(hitL, PADDLE_RIGHT_X, hitL.rightPaddle)
    IN  IF hitR.ball.x < 0
        THEN ResetBall([hitR EXCEPT !.score.right = @ + 1], serve)
        ELSE IF hitR.ball.x >= width * FP
        THEN ResetBall([hitR EXCEPT !.score.left = @ + 1], serve)
        ELSE hitR

\* checkGameEnd() that leaves the ball moving
CheckGameEndKeepsBall(g) ==
    IF g.score.left >= GOALS_TO_WIN
    THEN [g EXCEPT !.winner = "left", !.gameState = "GAME_OVER"]
    ELSE IF g.score.right >= GOALS_TO_WIN
    THEN [g EXCEPT !.winner = "right", !.gameState = "GAME_OVER"]
    ELSE g

\* checkGameEnd()
CheckGameEnd(g) ==
    IF g.score.left >= GOALS_TO_WIN
    THEN [g EXCEPT !.winner = "left", !.gameState = "GAME_OVER",
                   !.ball.vx = 0, !.ball.vy = 0]
    ELSE IF g.score.right >= GOALS_TO_WIN
    THEN [g EXCEPT !.winner = "right", !.gameState = "GAME_OVER",
                   !.ball.vx = 0, !.ball.vy = 0]
    ELSE g

\* updateLogic(dtMs): one simulation step
UpdateLogic(g, keys, serve, ai) ==
    LET p1 == [g EXCEPT !.leftPaddle = UpdatePaddle(@, g.leftController, keys, ai)]
        p2 == [p1 EXCEPT !.rightPaddle = UpdatePaddle(@, p1.rightController, keys, ai)]
    IN  CheckGameEnd(UpdateBall(p2, serve))


\* startNewGame()
StartNewGame(g) ==
    [g EXCEPT !.score = [left |-> 0, right |-> 0],
              !.volleyCount = 0,
              !.speedNum = SpeedDen,
              !.leftPaddle = PaddleStartY,
              !.rightPaddle = PaddleStartY,
              !.ball = [x |-> BallStartX, y |-> BallStartY, vx |-> 0, vy |-> 0],
              !.leftController =
                  IF g.rightPlayerOption = 0 THEN "keyboardLeft2P" ELSE "keyboard1P",
              !.rightController =
                  IF g.rightPlayerOption = 0 THEN "keyboardRight2P" ELSE "ai",
              !.gameState = "COUNTDOWN",
              !.countdownNumber = 3,
              !.countdownElapsed = 0,
              !.winner = "null",
              !.winning = FALSE,
              !.gameOverViaDebugKey = FALSE,
              !.debugGameOverVariant = "null"]

\* goToMenu()
GoToMenu(g) ==
    [g EXCEPT !.gameState = "MENU",
              !.winner = "null",
              !.winning = FALSE,
              !.gameOverViaDebugKey = FALSE,
              !.debugGameOverVariant = "null"]

\* pauseGame()
PauseGame(g) ==
    [g EXCEPT !.savedState = << [ball |-> g.ball,
                                 leftPaddle |-> g.leftPaddle,
                                 rightPaddle |-> g.rightPaddle,
                                 score |-> g.score] >>,
              !.gameState = "PAUSED"]

\* The saved values unpauseGame() copies back
RestoreSaved(g) ==
    IF g.savedState # <<>>
    THEN [g EXCEPT !.ball = g.savedState[1].ball,
                   !.leftPaddle = g.savedState[1].leftPaddle,
                   !.rightPaddle = g.savedState[1].rightPaddle,
                   !.score = g.savedState[1].score]
    ELSE g

\* unpauseGame() that resumes play at once, without the countdown
UnpauseGameDirect(g) ==
    [RestoreSaved(g) EXCEPT !.gameState = "PLAYING", !.savedState = <<>>]

\* unpauseGame() that keeps the snapshot it restored
UnpauseGameKeepsSaved(g) ==
    [RestoreSaved(g) EXCEPT !.resumingFromPause = TRUE,
                            !.gameState = "COUNTDOWN",
                            !.countdownNumber = 3,
                            !.countdownElapsed = 0]

\* unpauseGame()
UnpauseGame(g) ==
    [RestoreSaved(g) EXCEPT !.resumingFromPause = TRUE,
                            !.gameState = "COUNTDOWN",
                            !.countdownNumber = 3,
                            !.countdownElapsed = 0,
                            !.savedState = <<>>]

\* drawCountdown() that serves the ball at the end of every countdown
DrawCountdownAlwaysServes(g, serve) ==
    IF g.countdownElapsed >= countdownDuration
    THEN LET next == [g EXCEPT !.countdownNumber = @ - 1, !.countdownElapsed = 0]
         IN  IF next.countdownNumber < 1
             THEN ResetBall([next EXCEPT !.gameState = "PLAYING",
                                         !.resumingFromPause = FALSE], serve)
             ELSE next
    ELSE g

\* drawCountdown() that hands over to PLAYING one number early
DrawCountdownSkipsOne(g, serve) ==
    IF g.countdownElapsed >= countdownDuration
    THEN LET next == [g EXCEPT !.countdownNumber = @ - 1, !.countdownElapsed = 0]
         IN  IF next.countdownNumber <= 1
             THEN LET playing == [next EXCEPT !.gameState = "PLAYING",
                                              !.resumingFromPause = FALSE]
                  IN  IF g.resumingFromPause THEN playing
                      ELSE ResetBall(playing, serve)
             ELSE next
    ELSE g

\* drawCountdown(): the state it changes
DrawCountdown(g, serve) ==
    IF g.countdownElapsed >= countdownDuration
    THEN LET next == [g EXCEPT !.countdownNumber = @ - 1, !.countdownElapsed = 0]
         IN  IF next.countdownNumber < 1
             THEN LET playing == [next EXCEPT !.gameState = "PLAYING",
                                              !.resumingFromPause = FALSE]
                  IN  IF g.resumingFromPause THEN playing
                      ELSE ResetBall(playing, serve)
             ELSE next
    ELSE g

\* update(): _runStateUpdate[gameState]; drawMenu and drawGameOver leave the
\* bounds of their button behind for checkButtonClick
Update(g, serve) ==
    IF g.gameState = "MENU" THEN [g EXCEPT !.startButtonBounds = TRUE]
    ELSE IF g.gameState = "COUNTDOWN" THEN DrawCountdown(g, serve)
    ELSE IF g.gameState = "GAME_OVER" THEN [g EXCEPT !.restartButtonBounds = TRUE]
    ELSE g

\* checkButtonClick(pixelX, pixelY); onButton: the point is inside the bounds
\* of the button of the current screen
CheckButtonClick(g, onButton) ==
    IF g.gameState = "MENU" /\ g.startButtonBounds
    THEN (IF onButton THEN StartNewGame(g) ELSE g)
    ELSE IF g.gameState = "GAME_OVER" /\ g.restartButtonBounds
    THEN (IF onButton THEN GoToMenu(g) ELSE g)
    ELSE g

\* The build flag __DEBUG_SCREENS_ENABLED__: on unless the build disables it
DEBUG_SCREENS_ENABLED == TRUE

KEY_MENU_UP == {"ArrowUp", "w"}
KEY_MENU_DOWN == {"ArrowDown", "s"}

\* The keydown listener of setupClickHandler, for a key other than Space.
\* rightPlayerOption is the index into ['2P', 1, 2, 3]: 0 is '2P'.
MenuKeyDown(g, key, debug) ==
    IF key = "Enter"
    THEN (IF g.gameState = "MENU" THEN StartNewGame(g)
          ELSE IF g.gameState = "GAME_OVER" THEN GoToMenu(g)
          ELSE g)
    ELSE IF g.gameState = "MENU" /\ key \in KEY_MENU_UP \cup KEY_MENU_DOWN
    THEN LET i == g.rightPlayerOption
             j == IF key \in KEY_MENU_UP /\ i < 3 THEN i + 1
                  ELSE IF key \in KEY_MENU_DOWN /\ i > 0 THEN i - 1
                  ELSE i
         IN  [g EXCEPT !.rightPlayerOption = j,
                       !.aiDifficultyLevel = IF j = 0 THEN 1 ELSE j]
    ELSE IF debug /\ key = "o" /\ g.gameState = "MENU"
    THEN [g EXCEPT !.gameState = "GAME_OVER",
                   !.winning = TRUE,
                   !.gameOverViaDebugKey = TRUE,
                   !.debugGameOverVariant = "null"]
    ELSE IF debug /\ key = "l" /\ g.gameState = "MENU"
    THEN [g EXCEPT !.gameState = "GAME_OVER",
                   !.winner = "null",
                   !.winning = FALSE,
                   !.gameOverViaDebugKey = TRUE,
                   !.debugGameOverVariant = "null"]
    ELSE IF debug /\ g.gameState = "GAME_OVER" /\ g.gameOverViaDebugKey
                  /\ key \in {"1", "2"}
    THEN [g EXCEPT !.debugGameOverVariant = IF key = "1" THEN "1P" ELSE "2P"]
    ELSE g

\* A pause listener that also pauses a countdown
PauseKeyDownInCountdown(g, key) ==
    IF key = "p"
    THEN (IF g.gameState \in {"PLAYING", "COUNTDOWN"} THEN PauseGame(g)
          ELSE IF g.gameState = "PAUSED" THEN UnpauseGame(g)
          ELSE g)
    ELSE g

\* The keydown listener of setupPauseHandler
PauseKeyDown(g, key) ==
    IF key = "p"
    THEN (IF g.gameState = "PLAYING" THEN PauseGame(g)
          ELSE IF g.gameState = "PAUSED" THEN UnpauseGame(g)
          ELSE g)
    ELSE g

\* The keys the KeyboardControllers listen to
ControllerKeys == {"ArrowUp", "ArrowDown", "w", "s"}

(***************************************************************************)
(* gameLoop(ts)                                                            *)
(***************************************************************************)

\* frameMs: the clamped delta; the first callback sets lastTs = ts first
FrameMs(delta, started) == IF started THEN Min(delta, MAX_FRAME_MS) ELSE 0

\* The accumulator without the reset on entering PLAYING
AccumulatorKept(acc, gameState, prev) == acc

\* The accumulator after the reset on the transition into PLAYING
AccumulatorAtEntry(acc, gameState, prev) ==
    IF gameState = "PLAYING" /\ prev # "PLAYING" THEN 0 ELSE acc

\* The positions gameLoop copies into prevState
Snapshot(g) ==
    [ball |-> [x |-> g.ball.x, y |-> g.ball.y],
     leftPaddle |-> g.leftPaddle,
     rightPaddle |-> g.rightPaddle]

\* The while loop without the MAX_UPDATES_PER_FRAME bound
RECURSIVE DrainUncapped(_, _, _, _)
DrainUncapped(run, keys, serve, ai) ==
    IF run.accumulator >= DtNum
    THEN DrainUncapped([game |-> UpdateLogic(run.game, keys, serve, ai),
                        accumulator |-> run.accumulator - DtNum,
                        n |-> run.n + 1,
                        stepStates |-> Append(run.stepStates, run.game.gameState),
                        stepBefore |-> Append(run.stepBefore, Snapshot(run.game)),
                        prevState |-> run.prevState],
                       keys, serve, ai)
    ELSE run

\* The while loop with a prevState that is taken only once, before the first
\* step of the frame
RECURSIVE DrainFirstSnapshot(_, _, _, _)
DrainFirstSnapshot(run, keys, serve, ai) ==
    IF run.accumulator >= DtNum /\ run.n < MAX_UPDATES_PER_FRAME
    THEN DrainFirstSnapshot(
             [game |-> UpdateLogic(run.game, keys, serve, ai),
              accumulator |-> run.accumulator - DtNum,
              n |-> run.n + 1,
              stepStates |-> Append(run.stepStates, run.game.gameState),
              stepBefore |-> Append(run.stepBefore, Snapshot(run.game)),
              prevState |-> IF run.prevState = <<>> THEN << Snapshot(run.game) >>
                            ELSE run.prevState],
             keys, serve, ai)
    ELSE run

\* The while loop of gameLoop: run holds the game, the accumulator, the count
\* n and prevState (<<>> is null); stepStates and stepBefore are the history
\* of the loop: the gameState and the positions each step started with
RECURSIVE Drain(_, _, _, _)
Drain(run, keys, serve, ai) ==
    IF run.accumulator >= DtNum /\ run.n < MAX_UPDATES_PER_FRAME
    THEN Drain([game |-> UpdateLogic(run.game, keys, serve, ai),
                accumulator |-> run.accumulator - DtNum,
                n |-> run.n + 1,
                stepStates |-> Append(run.stepStates, run.game.gameState),
                stepBefore |-> Append(run.stepBefore, Snapshot(run.game)),
                prevState |-> << Snapshot(run.game) >>],
               keys, serve, ai)
    ELSE run

\* The body of gameLoop from "display.clear()" to the computation of alpha
RunFrame(g, acc, keys, serve, ai) ==
    LET start == [game |-> g, accumulator |-> acc, n |-> 0,
                  stepStates |-> <<>>, stepBefore |-> <<>>, prevState |-> <<>>]
        drained == Drain(start, keys, serve, ai)
    IN  IF g.gameState = "PLAYING"
        THEN IF drained.prevState = <<>>
             THEN [drained EXCEPT !.prevState = << Snapshot(drained.game) >>]
             ELSE drained
        ELSE [start EXCEPT !.game = Update(g, serve)]

\* The call gameLoop makes after the steps: drawCurrentFrame(alpha, prevState)
\* when the game is PLAYING by then, and no call (<<>>) otherwise.  current is
\* what the call reads from the game object.
DrawCall(run) ==
    IF run.game.gameState = "PLAYING"
    THEN << [alpha |-> run.accumulator, prevState |-> run.prevState,
             current |-> Snapshot(run.game)] >>
    ELSE <<>>


\* History: the saved values a pause in progress started with.  g is the
\* game before the step, g2 the game after it: pauseGame() records them, and
\* they are kept while the game is PAUSED or in the countdown that resumes it.
PausedAtAfter(p, g, g2) ==
    IF g.gameState = "PLAYING" /\ g2.gameState = "PAUSED" THEN g2.savedState
    ELSE IF g2.gameState = "PAUSED" THEN p
    ELSE IF g2.gameState = "COUNTDOWN" /\ g2.resumingFromPause
            /\ g.gameState \in {"PAUSED", "COUNTDOWN"} THEN p
    ELSE <<>>

InitGame ==
    /\ game = NewGame
    /\ keysDown = {}
    /\ accumulator = 0
    /\ prevGameState = "null"
    /\ lastTs = FALSE
    /\ inputs = 0
    /\ pausedAt = <<>>
    /\ countdownMs = 0

\* isRunning and animationFrameId after the constructor; the browser holds no
\* callback of the display and hands out handles from 1
InitLoop ==
    /\ isRunning = FALSE
    /\ animationFrameId = 0
    /\ rafPending = {}
    /\ rafNextId = 1
    /\ framesRendered = 0

Init ==
    /\ now = 0
    /\ lastOp = [name |-> "init"]
    /\ InitDegauss
    /\ InitGrid
    /\ InitGame
    /\ InitLoop

NextDegauss == Degauss \/ Render \/ TickDegauss

SpecDegauss == Init /\ [][NextDegauss]_vars

(***************************************************************************)
(* SpecDegaussLive: the degauss controller with a clock that never stops.  *)
(* The code reads the clock only through now - degaussStartTime and        *)
(* now - lastDegaussEndTime (and the 0 sentinels), so the clock advancing  *)
(* by step is the same as every stored time moving back by step.  The      *)
(* specification keeps now at LiveNow and moves the stored times; a time   *)
(* that is further back than the code can tell apart stays where it is.   *)
(* Fairness: render() keeps being called and the clock keeps advancing.    *)
(***************************************************************************)
LiveNow == DEGAUSS_COOLDOWN_MS + DEGAUSS_DURATION_BASE_MS

\* A stored time after the clock advanced by step; 0 (never, idle) stays 0,
\* and a time of oldest or earlier stays at oldest
MovedBack(t, step, oldest) ==
    IF t = 0 THEN 0 ELSE IF t <= oldest THEN t ELSE Max(t - step, oldest)

InitDegaussLive ==
    /\ now = LiveNow
    /\ lastOp = [name |-> "init"]
    /\ InitDegauss
    /\ InitGrid
    /\ InitGame
    /\ InitLoop

\* The monotonic clock advances by step
TickDegaussLive ==
    \E step \in ClockSteps :
        /\ degaussStartTime' =
               MovedBack(degaussStartTime, step, now - degaussDuration)
        /\ lastDegaussEndTime' =
               MovedBack(lastDegaussEndTime, step, now - DEGAUSS_COOLDOWN_MS)
        /\ lastRunStart' = IF lastRunStart < 0 THEN lastRunStart
                           ELSE MovedBack(lastRunStart, step,
                                          now - DEGAUSS_COOLDOWN_MS)
        /\ lastOp' = [name |-> "tick"]
        /\ UNCHANGED <<loopVars, now, degaussDuration, degaussStrength, degaussX,
                       frameOut, gridVars, gameVars>>

NextDegaussLive == Degauss \/ Render \/ TickDegaussLive

SpecDegaussLive ==
    /\ InitDegaussLive
    /\ [][NextDegaussLive]_vars
    /\ WF_vars(Render)
    /\ WF_vars(TickDegaussLive)

(***************************************************************************)
(* SpecGrid: the grid operations, called with arguments from small sets,   *)
(* and the clock.                                                          *)
(***************************************************************************)
MaxGridNow == 250
MaxGridOps == 3

GridClockSteps == {2 * CRT_FADE_IN_MS, 2 * CRT_FADE_IN_MS + FadeGrainMs}

\* <<x, y>> for setPixel: two cells of the grid, one coordinate left of it and
\* one below it
PixelArgs == {<<0, 0>>, <<1, 1>>, <<-1, 0>>, <<0, emulatedHeight>>}

\* <<x, y, w, h>>: one cell, a rectangle hanging over the bottom-right corner,
\* and one hanging over the top-left corner
RectArgs ==
    {<<0, 0, 1, 1>>, <<1, 1, emulatedWidth, emulatedHeight>>, <<-1, -1, 2, 2>>}

\* the sets on which a preserve predicate is true; {} is "no predicate"
PreserveSets == {{}, {<<1, 1>>}}

LineHArgs == {<<0, emulatedWidth, -1>>, <<-1, 0, 1>>}
LineVArgs == {<<1, emulatedHeight, 1>>, <<emulatedWidth, 0, 1>>}
LineVDashedArgs == {<<0, 0, emulatedHeight - 1, 2>>, <<1, emulatedHeight, -1, 0>>}
PatternArgs == {<< << <<1, 0>>, <<0, 1>> >>, <<0, 0>>, 2 >>,
                << << <<1>> >>, <<-1, 1>>, 3 >>}

SetPixel ==
    \E a \in PixelArgs, state \in BOOLEAN :
        /\ gridOps < MaxGridOps
        /\ gridOps' = gridOps + 1
        /\ pixels' = SetPixelAt(pixels, a[1], a[2], state, now)
        /\ offAtClear' = {c \in offAtClear : ~pixels'[c].state}
        /\ courtDrawn' = (courtDrawn /\ state)
        /\ litAtClear' = {p \in litAtClear : ~pixels'[p[1]].state}
        /\ lastOp' = [name |-> "setPixel", args |-> a, state |-> state,
                      was |-> GetPixel(pixels, a[1], a[2])]
        /\ UNCHANGED <<loopVars, now, degaussVars, gameVars>>

DrawPattern ==
    \E a \in PatternArgs :
        /\ gridOps < MaxGridOps
        /\ gridOps' = gridOps + 1
        /\ pixels' = SetPixelsOn(pixels,
                                 DrawPatternCells(a[1], a[2][1], a[2][2], a[3]), now)
        /\ offAtClear' = {c \in offAtClear : ~pixels'[c].state}
        /\ courtDrawn' = courtDrawn
        /\ litAtClear' = {p \in litAtClear : ~pixels'[p[1]].state}
        /\ lastOp' = [name |-> "drawPattern", args |-> a]
        /\ UNCHANGED <<loopVars, now, degaussVars, gameVars>>

DrawRectOutline ==
    \E r \in RectArgs, P \in PreserveSets :
        /\ gridOps < MaxGridOps
        /\ gridOps' = gridOps + 1
        /\ pixels' = SetPixelsOn(pixels,
                                 DrawRectOutlineCells(r[1], r[2], r[3], r[4], P), now)
        /\ offAtClear' = {c \in offAtClear : ~pixels'[c].state}
        /\ courtDrawn' = courtDrawn
        /\ litAtClear' = {p \in litAtClear : ~pixels'[p[1]].state}
        /\ lastOp' = [name |-> "drawRectOutline", args |-> r, preserve |-> P]
        /\ UNCHANGED <<loopVars, now, degaussVars, gameVars>>

DrawRectFilled ==
    \E r \in RectArgs :
        /\ gridOps < MaxGridOps
        /\ gridOps' = gridOps + 1
        /\ pixels' = SetPixelsOn(pixels,
                                 DrawRectFilledCells(r[1], r[2], r[3], r[4]), now)
        /\ offAtClear' = {c \in offAtClear : ~pixels'[c].state}
        /\ courtDrawn' = courtDrawn
        /\ litAtClear' = {p \in litAtClear : ~pixels'[p[1]].state}
        /\ lastOp' = [name |-> "drawRectFilled", args |-> r]
        /\ UNCHANGED <<loopVars, now, degaussVars, gameVars>>

DrawLineH ==
    \E a \in LineHArgs :
        /\ gridOps < MaxGridOps
        /\ gridOps' = gridOps + 1
        /\ pixels' = SetPixelsOn(pixels, DrawLineHCells(a[1], a[2], a[3]), now)
        /\ offAtClear' = {c \in offAtClear : ~pixels'[c].state}
        /\ courtDrawn' = courtDrawn
        /\ litAtClear' = {p \in litAtClear : ~pixels'[p[1]].state}
        /\ lastOp' = [name |-> "drawLineH", args |-> a]
        /\ UNCHANGED <<loopVars, now, degaussVars, gameVars>>

DrawLineV ==
    \E a \in LineVArgs :
        /\ gridOps < MaxGridOps
        /\ gridOps' = gridOps + 1
        /\ pixels' = SetPixelsOn(pixels, DrawLineVCells(a[1], a[2], a[3]), now)
        /\ offAtClear' = {c \in offAtClear : ~pixels'[c].state}
        /\ courtDrawn' = courtDrawn
        /\ litAtClear' = {p \in litAtClear : ~pixels'[p[1]].state}
        /\ lastOp' = [name |-> "drawLineV", args |-> a]
        /\ UNCHANGED <<loopVars, now, degaussVars, gameVars>>

DrawLineVDashed ==
    \E a \in LineVDashedArgs :
        /\ gridOps < MaxGridOps
        /\ gridOps' = gridOps + 1
        /\ pixels' = SetPixelsOn(pixels,
                                 DrawLineVDashedCells(a[1], a[2], a[3], a[4]), now)
        /\ offAtClear' = {c \in offAtClear : ~pixels'[c].state}
        /\ courtDrawn' = courtDrawn
        /\ litAtClear' = {p \in litAtClear : ~pixels'[p[1]].state}
        /\ lastOp' = [name |-> "drawLineVDashed", args |-> a]
        /\ UNCHANGED <<loopVars, now, degaussVars, gameVars>>

\* The bitmaps PIXEL_FONT can hold for a score digit (src/sprites.js)
DigitPatterns == {<< <<1, 1>>, <<1, 0>> >>, << <<0, 1>>, <<1, 1>> >>}

\* maintainCourt() without the bottom wall
MaintainCourtCellsNoBottomWall(leftDigit, rightDigit) ==
    LET midX == emulatedWidth \div 2
    IN  DrawLineVDashedCells(midX, 0, emulatedHeight - 1, 2)
        \cup DrawLineHCells(0, 0, emulatedWidth - 1)
        \cup DrawPatternCells(leftDigit, 2, 2, 2)
        \cup DrawPatternCells(rightDigit, emulatedWidth - 7, 2, 2)

\* The cells maintainCourt() draws on a court of the display's size: the
\* dashed midline, the top and the bottom wall, and the two score digits
MaintainCourtCells(leftDigit, rightDigit) ==
    LET midX == emulatedWidth \div 2
    IN  DrawLineVDashedCells(midX, 0, emulatedHeight - 1, 2)
        \cup DrawLineHCells(0, 0, emulatedWidth - 1)
        \cup DrawLineHCells(emulatedHeight - 1, 0, emulatedWidth - 1)
        \cup DrawPatternCells(leftDigit, 2, 2, 2)
        \cup DrawPatternCells(rightDigit, emulatedWidth - 7, 2, 2)

\* game.maintainCourt()
MaintainCourt ==
    \E leftDigit \in DigitPatterns, rightDigit \in DigitPatterns :
        /\ gridOps < MaxGridOps
        /\ gridOps' = gridOps + 1
        /\ pixels' = SetPixelsOn(pixels, MaintainCourtCells(leftDigit, rightDigit), now)
        /\ offAtClear' = {c \in offAtClear : ~pixels'[c].state}
        /\ courtDrawn' = TRUE
        /\ litAtClear' = {p \in litAtClear : ~pixels'[p[1]].state}
        /\ lastOp' = [name |-> "maintainCourt"]
        /\ UNCHANGED <<loopVars, now, degaussVars, gameVars>>

ClearRect ==
    \E r \in RectArgs, P \in PreserveSets :
        /\ gridOps < MaxGridOps
        /\ gridOps' = gridOps + 1
        /\ pixels' = ClearRectPx(pixels, r[1], r[2], r[3], r[4], P, now)
        /\ offAtClear' = {c \in offAtClear : ~pixels'[c].state}
        /\ courtDrawn' = FALSE
        /\ litAtClear' = {p \in litAtClear : ~pixels'[p[1]].state}
        /\ lastOp' = [name |-> "clearRect", args |-> r, preserve |-> P]
        /\ UNCHANGED <<loopVars, now, degaussVars, gameVars>>

Clear ==
    /\ gridOps < MaxGridOps
    /\ gridOps' = gridOps + 1
    /\ pixels' = ClearPx(pixels, now)
    /\ offAtClear' = {c \in Cells : ~pixels[c].state}
    /\ courtDrawn' = FALSE
    /\ litAtClear' = litAtClear \cup {<<c, now>> : c \in {d \in Cells : pixels[d].state}}
    /\ lastOp' = [name |-> "clear"]
    /\ UNCHANGED <<loopVars, now, degaussVars, gameVars>>

TickGrid ==
    \E step \in GridClockSteps :
        /\ now + step <= MaxGridNow
        /\ now' = now + step
        /\ lastOp' = [name |-> "tick"]
        /\ UNCHANGED <<loopVars, degaussVars, gridVars, gameVars>>

NextGrid ==
    \/ SetPixel \/ DrawPattern \/ DrawRectOutline \/ DrawRectFilled
    \/ DrawLineH \/ DrawLineV \/ DrawLineVDashed
    \/ MaintainCourt \/ ClearRect \/ Clear \/ TickGrid

SpecGrid == Init /\ [][NextGrid]_vars

(***************************************************************************)
(* SpecGame: frame callbacks, key presses and releases, and clicks.  The   *)
(* clock advances by the frame delta when a callback arrives, and an input *)
(* event arrives between two callbacks.  The display stays idle here: no   *)
(* degauss is triggered, so render()'s expiry check has nothing to end.    *)
(***************************************************************************)
MaxAccumulator == 40000
MaxInputs == 3

\* ms between two callbacks: a 20 Hz frame (three steps of DT_MS), and a
\* stall longer than MAX_FRAME_MS that is also one countdown window
FrameDeltas == {50, countdownDuration}

Keys == {"Enter", "p", "ArrowDown", "o"}

\* requestAnimationFrame calls gameLoop(ts), delta ms after the previous call
Frame ==
    \E delta \in FrameDeltas, serve \in ServeOutcomes, ai \in AiVelocities :
        LET frameMs == FrameMs(delta, lastTs)
            added == accumulator + frameMs * LOGIC_HZ
            acc == AccumulatorAtEntry(added, game.gameState, prevGameState)
            timed == [game EXCEPT !.countdownElapsed =
                         IF game.gameState = "COUNTDOWN"
                         THEN Min(@ + delta, countdownDuration) ELSE @]
            run == RunFrame(timed, acc, keysDown, serve, ai)
        IN  /\ run.accumulator <= MaxAccumulator
            /\ lastTs' = TRUE
            /\ prevGameState' = game.gameState
            /\ game' = run.game
            /\ pausedAt' = PausedAtAfter(pausedAt, game, run.game)
            /\ accumulator' = run.accumulator
            /\ lastOp' = [name |-> "frame",
                          prev |-> prevGameState,
                          frameMs |-> frameMs,
                          added |-> added,
                          drained |-> acc,
                          n |-> run.n,
                          stepStates |-> run.stepStates,
                          lastBefore |-> IF run.n = 0 THEN <<>>
                                         ELSE << run.stepBefore[run.n] >>,
                          draw |-> DrawCall(run)]
            /\ UNCHANGED <<loopVars, now, degaussVars, gridVars, keysDown, inputs,
                           countdownMs>>

\* A keydown event: the listeners of the three KeyboardControllers, of
\* setupClickHandler and of setupPauseHandler, in the order they were added
KeyDown ==
    \E key \in Keys :
        /\ inputs < MaxInputs
        /\ inputs' = inputs + 1
        /\ keysDown' = IF key \in ControllerKeys THEN keysDown \cup {key} ELSE keysDown
        /\ game' = PauseKeyDown(MenuKeyDown(game, key, DEBUG_SCREENS_ENABLED), key)
        /\ pausedAt' = PausedAtAfter(pausedAt, game, game')
        /\ lastOp' = [name |-> "keydown", key |-> key]
        /\ UNCHANGED <<loopVars, now, degaussVars, gridVars, accumulator, prevGameState,
                       lastTs, countdownMs>>

\* A keyup event of a key that is held
KeyUp ==
    \E key \in keysDown :
        /\ inputs < MaxInputs
        /\ inputs' = inputs + 1
        /\ keysDown' = keysDown \ {key}
        /\ lastOp' = [name |-> "keyup", key |-> key]
        /\ UNCHANGED <<loopVars, now, degaussVars, gridVars, game, accumulator, prevGameState,
                       lastTs, pausedAt, countdownMs>>

\* A click on the canvas
Click ==
    \E onButton \in BOOLEAN :
        /\ inputs < MaxInputs
        /\ inputs' = inputs + 1
        /\ game' = CheckButtonClick(game, onButton)
        /\ pausedAt' = PausedAtAfter(pausedAt, game, game')
        /\ lastOp' = [name |-> "click", onButton |-> onButton]
        /\ UNCHANGED <<loopVars, now, degaussVars, gridVars, keysDown, accumulator,
                       prevGameState, lastTs, countdownMs>>

NextGame == Frame \/ KeyDown \/ KeyUp \/ Click

SpecGame == Init /\ [][NextGame]_vars

(***************************************************************************)
(* SpecCountdown: one countdown, from the state startNewGame or            *)
(* unpauseGame leaves to the call that hands over to PLAYING.  One step is *)
(* one drawCountdown() call, some time after the previous one, the way     *)
(* tests/pong.test.js moves the display's clock and calls it.              *)
(***************************************************************************)

\* ms between two calls
CountdownGaps == {50, 300, countdownDuration}

\* The game after its first frame in the menu and Enter
CountdownOfNewGame == StartNewGame(Update(NewGame, <<0, 0>>))

\* The same game, served, paused and resumed
CountdownOfResume ==
    LET serve == CHOOSE v \in ServeOutcomes : v[1] > 0
        playing == ResetBall([CountdownOfNewGame EXCEPT !.gameState = "PLAYING",
                                                        !.countdownNumber = 0],
                             serve)
    IN  UnpauseGame(PauseGame(playing))

InitCountdown ==
    /\ now = 0
    /\ lastOp = [name |-> "init"]
    /\ InitDegauss
    /\ InitGrid
    /\ InitLoop
    /\ game \in {CountdownOfNewGame, CountdownOfResume}
    /\ keysDown = {}
    /\ accumulator = 0
    /\ prevGameState = "MENU"
    /\ lastTs = TRUE
    /\ inputs = 0
    /\ pausedAt = <<>>
    /\ countdownMs = 0

\* game.drawCountdown(), gap ms after the previous call
DrawCountdownCall ==
    \E gap \in CountdownGaps, serve \in ServeOutcomes :
        LET timed == [game EXCEPT !.countdownElapsed =
                         Min(@ + gap, countdownDuration)]
        IN  /\ game.gameState = "COUNTDOWN"
            /\ game' = DrawCountdown(timed, serve)
            /\ countdownMs' = Min(countdownMs + gap, 3 * countdownDuration)
            /\ lastOp' = [name |-> "drawCountdown",
                          elapsed |-> timed.countdownElapsed]
            /\ UNCHANGED <<loopVars, now, degaussVars, gridVars, keysDown,
                           accumulator, prevGameState, lastTs, inputs, pausedAt>>

NextCountdown == DrawCountdownCall

SpecCountdown == InitCountdown /\ [][NextCountdown]_vars

(***************************************************************************)
(* SpecCountdownLive: the countdown inside the running program.  Frame     *)
(* callbacks, key events and clicks interleave freely while the game is in *)
(* COUNTDOWN; every callback comes some ms after the previous one.  The    *)
(* browser keeps calling the callback gameLoop re-registers at its end, so *)
(* the callback is weakly fair; no input event is.  The accumulator, which *)
(* nothing reads before PLAYING resets it, is kept at MaxAccumulator once  *)
(* it has grown past it.                                                   *)
(***************************************************************************)

\* The keys pressed during the countdown: Enter, pause, menu, debug and
\* controller keys
CountdownKeys == Keys \cup {"l", "1", "w"}

\* requestAnimationFrame calls gameLoop(ts) while the game is in COUNTDOWN
CountdownFrame ==
    \E delta \in CountdownGaps, serve \in ServeOutcomes, ai \in AiVelocities :
        LET frameMs == FrameMs(delta, lastTs)
            added == accumulator + frameMs * LOGIC_HZ
            acc == AccumulatorAtEntry(added, game.gameState, prevGameState)
            timed == [game EXCEPT !.countdownElapsed =
                         Min(@ + delta, countdownDuration)]
            run == RunFrame(timed, acc, keysDown, serve, ai)
        IN  /\ game.gameState = "COUNTDOWN"
            /\ lastTs' = TRUE
            /\ prevGameState' = game.gameState
            /\ game' = run.game
            /\ pausedAt' = PausedAtAfter(pausedAt, game, run.game)
            /\ accumulator' = Min(run.accumulator, MaxAccumulator)
            /\ countdownMs' = Min(countdownMs + delta, 3 * countdownDuration)
            /\ lastOp' = [name |-> "frame", frameMs |-> frameMs,
                          elapsed |-> timed.countdownElapsed]
            /\ UNCHANGED <<loopVars, now, degaussVars, gridVars, keysDown, inputs>>

\* A keydown event during the countdown, through all the listeners
CountdownKeyDown ==
    \E key \in CountdownKeys :
        /\ game.gameState = "COUNTDOWN"
        /\ keysDown' = IF key \in ControllerKeys THEN keysDown \cup {key} ELSE keysDown
        /\ game' = PauseKeyDown(MenuKeyDown(game, key, DEBUG_SCREENS_ENABLED), key)
        /\ pausedAt' = PausedAtAfter(pausedAt, game, game')
        /\ lastOp' = [name |-> "keydown", key |-> key]
        /\ UNCHANGED <<loopVars, now, degaussVars, gridVars, accumulator, prevGameState,
                       lastTs, inputs, countdownMs>>

\* A keyup event during the countdown
CountdownKeyUp ==
    \E key \in keysDown :
        /\ game.gameState = "COUNTDOWN"
        /\ keysDown' = keysDown \ {key}
        /\ lastOp' = [name |-> "keyup", key |-> key]
        /\ UNCHANGED <<loopVars, now, degaussVars, gridVars, game, accumulator,
                       prevGameState, lastTs, inputs, pausedAt, countdownMs>>

\* A click on the canvas during the countdown
CountdownClick ==
    \E onButton \in BOOLEAN :
        /\ game.gameState = "COUNTDOWN"
        /\ game' = CheckButtonClick(game, onButton)
        /\ pausedAt' = PausedAtAfter(pausedAt, game, game')
        /\ lastOp' = [name |-> "click", onButton |-> onButton]
        /\ UNCHANGED <<loopVars, now, degaussVars, gridVars, keysDown, accumulator,
                       prevGameState, lastTs, inputs, countdownMs>>

NextCountdownLive ==
    CountdownFrame \/ CountdownKeyDown \/ CountdownKeyUp \/ CountdownClick

SpecCountdownLive ==
    /\ InitCountdown
    /\ [][NextCountdownLive]_vars
    /\ WF_vars(CountdownFrame)

(***************************************************************************)
(* SpecSample: the sampling loop of render()'s degauss path.  dx and dy    *)
(* are real numbers of display pixels, bounded by DEGAUSS_AMP_PX = 12 px,  *)
(* which is 4.5 cells of the default 800/300 px step; here they are        *)
(* counted in quarters of a cell step, a column's dx and a row's dy drawn  *)
(* from Displacements.  One step is one pass of the two nested loops.      *)
(***************************************************************************)

\* Quarters per cell step
DispDen == 4

\* dx / stepX and dy / stepY, in quarters: none, a fraction of a cell either
\* way, and the full amplitude either way
Displacements == {-18, -1, 0, 1, 18}

\* The index without the clamp: Math.floor(x_src) alone
SourceIndexUnclamped(cell, disp, size) == (cell * DispDen - disp) \div DispDen

\* ix = max(0, min(emulatedWidth - 1, floor((pixelX - dx) / stepX))), where
\* pixelX = x * stepX; the same for iy
SourceIndex(cell, disp, size) ==
    Max(0, Min(size - 1, (cell * DispDen - disp) \div DispDen))

\* The cell pixels[iy][ix] each (x, y) of the two loops reads
SampleMap(dxs, dys) ==
    [c \in Cells |-> <<SourceIndex(c[1], dxs[c[1]], emulatedWidth),
                       SourceIndex(c[2], dys[c[2]], emulatedHeight)>>]

InitSample ==
    /\ now = 0
    /\ lastOp = [name |-> "init"]
    /\ InitDegauss
    /\ InitGrid
    /\ InitGame
    /\ InitLoop

\* One pass of the degauss branch of render()
SamplePass ==
    \E dxs \in [0..(emulatedWidth - 1) -> Displacements],
       dys \in [0..(emulatedHeight - 1) -> Displacements] :
        /\ lastOp.name = "init"
        /\ lastOp' = [name |-> "sample", dx |-> dxs, dy |-> dys,
                      src |-> SampleMap(dxs, dys)]
        /\ UNCHANGED <<loopVars, now, degaussVars, gridVars, gameVars>>

NextSample == SamplePass

SpecSample == InitSample /\ [][NextSample]_vars

(***************************************************************************)
(* SpecCanDraw: _canDrawPixel(px, py, opts) as a function of the point,    *)
(* the options and the size of the court.  The demo's court is 160 x 120;  *)
(* an odd-sized court shows the floors.                                    *)
(***************************************************************************)

BUTTON_PADDING == 30
BUTTON_PADDING_V == 25

\* <<width, height>> of the display the game was built for
CourtSizes == {<<160, 120>>, <<161, 121>>}

\* The columns and rows the calls are made for: the edges of the court, of
\* the midline and of the button region
CanDrawXs == {0, 79, 80, 81, 129, 130, 131, 132, 159}
CanDrawYs == {0, 1, 34, 35, 36, 60, 84, 85, 86, 118, 119, 120}

\* opts: omitted (the default {}), { excludeButton: false } and
\* { excludeButton: true }
CanDrawOpts == {"omitted", "false", "true"}

\* _canDrawPixel with a button region that includes its bounds
CanDrawPixelInclusive(px, py, opts, w, h) ==
    LET midX == w \div 2
        centerY == h \div 2
    IN  IF px = midX \/ py = 0 \/ py = h - 1 THEN FALSE
        ELSE IF opts = "true" /\ px >= w - BUTTON_PADDING
                /\ py >= centerY - BUTTON_PADDING_V
                /\ py <= centerY + BUTTON_PADDING_V THEN FALSE
        ELSE TRUE

\* _canDrawPixel(px, py, opts) of a game of width w and height h
CanDrawPixel(px, py, opts, w, h) ==
    LET midX == w \div 2
        centerY == h \div 2
    IN  IF px = midX \/ py = 0 \/ py = h - 1 THEN FALSE
        ELSE IF opts = "true" /\ px > w - BUTTON_PADDING
                /\ py > centerY - BUTTON_PADDING_V
                /\ py < centerY + BUTTON_PADDING_V THEN FALSE
        ELSE TRUE

InitCanDraw ==
    /\ now = 0
    /\ lastOp = [name |-> "init"]
    /\ InitDegauss
    /\ InitGrid
    /\ InitGame
    /\ InitLoop

\* game._canDrawPixel(px, py, opts)
CanDrawPixelCall ==
    \E size \in CourtSizes, px \in CanDrawXs, py \in CanDrawYs,
       opts \in CanDrawOpts :
        /\ lastOp.name = "init"
        /\ lastOp' = [name |-> "canDrawPixel", w |-> size[1], h |-> size[2],
                      px |-> px, py |-> py, opts |-> opts,
                      result |-> CanDrawPixel(px, py, opts, size[1], size[2])]
        /\ UNCHANGED <<loopVars, now, degaussVars, gridVars, gameVars>>

NextCanDraw == CanDrawPixelCall

SpecCanDraw == InitCanDraw /\ [][NextCanDraw]_vars

(***************************************************************************)
(* SpecSteps: the simulation steps of one game, from the serve that ends   *)
(* the countdown of startNewGame.  One step is one updateLogic(DT_MS)      *)
(* call.  gameLoop calls it while the game is PLAYING at the start of the  *)
(* frame, so the steps left in a frame still run after one of them has     *)
(* ended the game.                                                         *)
(***************************************************************************)

\* The keys held during a step
StepKeys == {{}, {"ArrowUp"}, {"ArrowDown", "w"}}

InitSteps ==
    /\ now = 0
    /\ lastOp = [name |-> "init"]
    /\ InitDegauss
    /\ InitGrid
    /\ InitLoop
    /\ \E serve \in ServeOutcomes :
           game = DrawCountdown([CountdownOfNewGame EXCEPT
                                     !.countdownNumber = 1,
                                     !.countdownElapsed = countdownDuration],
                                serve)
    /\ keysDown = {}
    /\ accumulator = 0
    /\ prevGameState = "COUNTDOWN"
    /\ lastTs = TRUE
    /\ inputs = 0
    /\ pausedAt = <<>>
    /\ countdownMs = 0

\* game.updateLogic(DT_MS)
UpdateLogicCall ==
    \E keys \in StepKeys, serve \in ServeOutcomes, ai \in AiVelocities :
        /\ game.gameState \in {"PLAYING", "GAME_OVER"}
        /\ game' = UpdateLogic(game, keys, serve, ai)
        /\ keysDown' = keys
        /\ lastOp' = [name |-> "updateLogic", before |-> game.gameState,
                      score |-> game.score]
        /\ UNCHANGED <<loopVars, now, degaussVars, gridVars, accumulator,
                       prevGameState, lastTs, inputs, pausedAt, countdownMs>>

NextSteps == UpdateLogicCall

SpecSteps == InitSteps /\ [][NextSteps]_vars

(***************************************************************************)
(* SpecPaddle: updatePaddle(paddle, controller) as a function of the       *)
(* paddle, the controller and the height of the court.  A keyboard         *)
(* controller returns a direction; an AIController writes paddle.y itself, *)
(* and what it writes is any number here, far outside the court included.  *)
(***************************************************************************)

\* Heights of the court: the smallest a paddle fits in, and the demo's
CourtHeights == {16, 120}

\* paddle.y before the call: inside the walls, from the top to the bottom
PaddleStarts(h) ==
    {FP, FP + 1, PaddleStartY, (h - 1 - PADDLE_HEIGHT) * FP - 1,
     (h - 1 - PADDLE_HEIGHT) * FP} \cap (FP..((h - 1 - PADDLE_HEIGHT) * FP))

\* What an AIController adds to paddle.y in its update()
AiOutputs == {-500 * FP, -AiMaxSpeed, -1, 0, 1, AiMaxSpeed, 500 * FP}

PaddleControllers == {"keyboard1P", "keyboardLeft2P", "keyboardRight2P", "ai"}

PaddleKeys == {{}, {"ArrowUp"}, {"ArrowDown"}, {"w"}, {"s"}, {"ArrowUp", "s"}}

\* updatePaddle on a court of height h
UpdatePaddleOn(y, controller, keys, ai, h) ==
    LET direction == KeyboardDirection(controller, keys)
        moved == IF controller = "ai" THEN y + ai
                 ELSE IF direction = "up" THEN y - PADDLE_SPEED
                 ELSE IF direction = "down" THEN y + PADDLE_SPEED
                 ELSE y
    IN  ConstrainPaddleOn(moved, h)

InitPaddle ==
    /\ now = 0
    /\ lastOp = [name |-> "init"]
    /\ InitDegauss
    /\ InitGrid
    /\ InitGame
    /\ InitLoop

\* game.updatePaddle(paddle, controller)
UpdatePaddleCall ==
    \E h \in CourtHeights, controller \in PaddleControllers,
       keys \in PaddleKeys, ai \in AiOutputs :
        \E y \in PaddleStarts(h) :
            /\ lastOp.name = "init"
            /\ lastOp' = [name |-> "updatePaddle", h |-> h, before |-> y,
                          controller |-> controller, keys |-> keys,
                          ai |-> IF controller = "ai" THEN ai ELSE 0,
                          y |-> UpdatePaddleOn(y, controller, keys, ai, h)]
            /\ UNCHANGED <<loopVars, now, degaussVars, gridVars, gameVars>>

NextPaddle == UpdatePaddleCall

SpecPaddle == InitPaddle /\ [][NextPaddle]_vars

(***************************************************************************)
(* SpecRally: the paddle hits of one rally after another.  Between two     *)
(* hits updateBall carries the ball across the court: that changes its     *)
(* position and, at a wall, the sign of vy, and leaves vx alone.  One      *)
(* RallyHit step is that flight and the checkPaddleCollision call that     *)
(* finds the ball inside the paddle it flew to; one RallyGoal step is the  *)
(* flight past the paddle and the goal updateBall counts.  lastOp.served   *)
(* is the history of |vx| at the serve that started the rally.             *)
(***************************************************************************)

\* Hits per rally
MaxRallyHits == 30

\* ball.y at a hit, with the paddle at y = 1: near its top, at its middle and
\* near its bottom
RallyYs == {3 * FP, 8 * FP, 13 * FP}

\* The paddle the ball is flying to: <<x, y>>
RallyPaddle(g) ==
    IF g.ball.vx < 0 THEN <<PADDLE_LEFT_X, g.leftPaddle>>
    ELSE <<PADDLE_RIGHT_X, g.rightPaddle>>

InitRally ==
    /\ now = 0
    /\ InitDegauss
    /\ InitGrid
    /\ InitLoop
    /\ \E serve \in ServeOutcomes :
           /\ game = DrawCountdown([CountdownOfNewGame EXCEPT
                                        !.countdownNumber = 1,
                                        !.countdownElapsed = countdownDuration],
                                   serve)
           /\ lastOp = [name |-> "serve", served |-> Abs(serve[1])]
    /\ keysDown = {}
    /\ accumulator = 0
    /\ prevGameState = "COUNTDOWN"
    /\ lastTs = TRUE
    /\ inputs = 0
    /\ pausedAt = <<>>
    /\ countdownMs = 0

\* The ball reaches the paddle on its side and checkPaddleCollision returns it
RallyHit ==
    \E y \in RallyYs :
        LET paddle == RallyPaddle(game)
            arrived == [game EXCEPT !.ball.x = paddle[1] * FP, !.ball.y = y]
        IN  /\ game.gameState = "PLAYING"
            /\ game.volleyCount < MaxRallyHits
            /\ PaddleHit(arrived.ball, paddle[1], paddle[2])
            /\ game' = CheckPaddleCollision(arrived, paddle[1], paddle[2])
            /\ lastOp' = [name |-> "hit", served |-> lastOp.served]
            /\ UNCHANGED <<loopVars, now, degaussVars, gridVars, keysDown,
                           accumulator, prevGameState, lastTs, inputs, pausedAt,
                           countdownMs>>

\* The ball passes the paddle: updateBall counts the goal and serves again
RallyGoal ==
    \E serve \in ServeOutcomes :
        LET x == IF game.ball.vx < 0 THEN -FP ELSE width * FP
            passing == [game EXCEPT !.ball.x = x - game.ball.vx,
                                    !.ball.y = BallStartY, !.ball.vy = 0]
        IN  /\ game.gameState = "PLAYING"
            /\ game.score.left + game.score.right < GOALS_TO_WIN - 1
            /\ game' = UpdateBall(passing, serve)
            /\ lastOp' = [name |-> "goal", served |-> Abs(serve[1])]
            /\ UNCHANGED <<loopVars, now, degaussVars, gridVars, keysDown,
                           accumulator, prevGameState, lastTs, inputs, pausedAt,
                           countdownMs>>

NextRally == RallyHit \/ RallyGoal

SpecRally == InitRally /\ [][NextRally]_vars

(***************************************************************************)
(* SpecBall: checkGameEnd, updateBall and checkPaddleCollision as          *)
(* functions of the game object.  The initial state draws the object from  *)
(* BallGames and one step applies one of the three methods to it, the way  *)
(* tests/pong.test.js sets the fields and calls the method.                *)
(***************************************************************************)

\* Serves at the ends of resetBall's ranges: speed 0.95 and 1.05, angle
\* 30 and 40 degrees, to the left and to the right
ServeExtremes ==
    {<<dir * v[1], v[2]>> : dir \in {-1, 1}, v \in {<<823, 475>>, <<804, 675>>}}

\* ball.x around the goal lines and around both paddles' x ranges
BallXs ==
    {-1, 0, BallStartX, width * FP - 1, width * FP}
    \cup {px * FP + d : px \in {PADDLE_LEFT_X, PADDLE_RIGHT_X},
                        d \in {-1, 0, PADDLE_WIDTH * FP - 1, PADDLE_WIDTH * FP}}

\* paddle.y: against the top wall, and further down as on a taller court
\* (checkPaddleCollision reads neither width nor height)
PaddleYs == {FP, 5 * FP}

\* ball.y around the paddles' y ranges
BallYs ==
    {py + d : py \in PaddleYs,
              d \in {-1, 0, (PADDLE_HEIGHT * FP) \div 2,
                     PADDLE_HEIGHT * FP - 1, PADDLE_HEIGHT * FP}}

\* ball.vx: a serve either way, a slow ball that the minimum speed rule
\* picks up, and a ball at twice the base speed
BallVxs == {-(8 * BALL_SPEED) \div 10, (8 * BALL_SPEED) \div 10,
            -(3 * BALL_SPEED) \div 10, 2 * BALL_SPEED}
BallVys == {-(6 * BALL_SPEED) \div 10, (6 * BALL_SPEED) \div 10}

\* volleyCount: none, one, and around the cap of the speed multiplier
VolleyCounts == {0, 1, SpeedDen - 1, SpeedDen, SpeedDen + 1}

\* score: updateLogic runs checkGameEnd after every updateBall, so at most
\* one side has reached GOALS_TO_WIN
Scores ==
    {s \in [left : {0, GOALS_TO_WIN - 1, GOALS_TO_WIN},
            right : {0, GOALS_TO_WIN - 1, GOALS_TO_WIN}] :
        ~(s.left >= GOALS_TO_WIN /\ s.right >= GOALS_TO_WIN)}

\* A game in play with the given ball, paddles, score and volley count
GameInPlay(ball, paddleY, score, volley) ==
    [NewGame EXCEPT !.gameState = "PLAYING",
                    !.ball = ball,
                    !.leftPaddle = paddleY,
                    !.rightPaddle = paddleY,
                    !.score = score,
                    !.volleyCount = volley,
                    !.speedNum = Min(SpeedDen + volley, MaxSpeedNum)]

BallGames ==
    {GameInPlay([x |-> BallStartX, y |-> BallStartY, vx |-> vx, vy |-> vy],
                FP, s, 0) :
        s \in Scores, vx \in BallVxs, vy \in BallVys}
    \cup
    {GameInPlay([x |-> x, y |-> y, vx |-> vx, vy |-> vy], py,
                [left |-> 1, right |-> 2], volley) :
        x \in BallXs, y \in BallYs, vx \in BallVxs, vy \in BallVys,
        py \in PaddleYs, volley \in VolleyCounts}

InitBall ==
    /\ now = 0
    /\ lastOp = [name |-> "init"]
    /\ InitDegauss
    /\ InitGrid
    /\ InitLoop
    /\ game \in BallGames
    /\ keysDown = {}
    /\ accumulator = 0
    /\ prevGameState = "PLAYING"
    /\ lastTs = TRUE
    /\ inputs = 0
    /\ pausedAt = <<>>
    /\ countdownMs = 0

\* game.checkGameEnd()
CheckGameEndCall ==
    /\ lastOp.name = "init"
    /\ game' = CheckGameEnd(game)
    /\ lastOp' = [name |-> "checkGameEnd", before |-> game]
    /\ UNCHANGED <<loopVars, now, degaussVars, gridVars, keysDown, accumulator,
                   prevGameState, lastTs, inputs, pausedAt, countdownMs>>

\* game.updateBall()
UpdateBallCall ==
    \E serve \in ServeOutcomes \cup ServeExtremes :
        /\ lastOp.name = "init"
        /\ game' = UpdateBall(game, serve)
        /\ lastOp' = [name |-> "updateBall", before |-> game]
        /\ UNCHANGED <<loopVars, now, degaussVars, gridVars, keysDown, accumulator,
                       prevGameState, lastTs, inputs, pausedAt, countdownMs>>

\* What checkPaddleCollision(paddle) returns
CheckPaddleCollisionReturns(g, px, py) == PaddleHit(g.ball, px, py)

\* game.checkPaddleCollision(game.leftPaddle) or (game.rightPaddle)
CheckPaddleCollisionCall ==
    \E side \in {"left", "right"} :
        LET px == IF side = "left" THEN PADDLE_LEFT_X ELSE PADDLE_RIGHT_X
            py == IF side = "left" THEN game.leftPaddle ELSE game.rightPaddle
        IN  /\ lastOp.name = "init"
            /\ game' = CheckPaddleCollision(game, px, py)
            /\ lastOp' = [name |-> "checkPaddleCollision", before |-> game,
                          paddle |-> [x |-> px, y |-> py],
                          returned |-> CheckPaddleCollisionReturns(game, px, py)]
            /\ UNCHANGED <<loopVars, now, degaussVars, gridVars, keysDown, accumulator,
                           prevGameState, lastTs, inputs, pausedAt, countdownMs>>

NextBall == CheckGameEndCall \/ UpdateBallCall \/ CheckPaddleCollisionCall

SpecBall == InitBall /\ [][NextBall]_vars

(***************************************************************************)
(* SpecLoop: the display's render loop: start(), stop() and the callbacks  *)
(* requestAnimationFrame delivers, in any order.                           *)
(***************************************************************************)
MaxFrameIds == 40

\* start() without its first line
StartReturnsEarlyNever(running) == FALSE

\* "if (this.isRunning) return;"
StartReturnsEarly(running) == running

\* renderLoop() past its isRunning test: render(), then schedule the next call
RenderAndReschedule ==
    /\ framesRendered' = framesRendered + 1
    /\ animationFrameId' = rafNextId
    /\ rafNextId' = rafNextId + 1

\* display.start()
Start ==
    /\ rafNextId <= MaxFrameIds
    /\ IF StartReturnsEarly(isRunning)
       THEN UNCHANGED loopVars
       ELSE /\ isRunning' = TRUE
            /\ RenderAndReschedule
            /\ rafPending' = rafPending \cup {rafNextId}
    /\ lastOp' = [name |-> "start", wasRunning |-> isRunning]
    /\ UNCHANGED <<now, degaussVars, gridVars, gameVars>>

\* display.stop()
Stop ==
    /\ isRunning' = FALSE
    /\ IF animationFrameId # 0
       THEN /\ rafPending' = rafPending \ {animationFrameId}
            /\ animationFrameId' = 0
       ELSE UNCHANGED <<rafPending, animationFrameId>>
    /\ lastOp' = [name |-> "stop", wasRunning |-> isRunning]
    /\ UNCHANGED <<now, degaussVars, gridVars, gameVars, rafNextId, framesRendered>>

\* The browser runs a scheduled renderLoop
AnimationFrame ==
    \E id \in rafPending :
        /\ rafNextId <= MaxFrameIds
        /\ IF ~isRunning
           THEN /\ rafPending' = rafPending \ {id}
                /\ UNCHANGED <<animationFrameId, rafNextId, framesRendered>>
           ELSE /\ RenderAndReschedule
                /\ rafPending' = (rafPending \ {id}) \cup {rafNextId}
        /\ lastOp' = [name |-> "animationFrame", id |-> id]
        /\ UNCHANGED <<now, degaussVars, gridVars, gameVars, isRunning>>

NextLoop == Start \/ Stop \/ AnimationFrame

SpecLoop == Init /\ [][NextLoop]_vars

(***************************************************************************)
(* Claims about the degauss controller (SpecDegauss).                      *)
(***************************************************************************)

\* A step in which degauss() entered Active
RunStarts == lastOp'.name = "degauss" /\ lastRunStart' # lastRunStart

\* The end s + d of the latest run.  degaussDuration is rounded up to the
\* clock grain; for an x >= 1 and times on the grain,
\* x <= clamp(t - (s + d) - min) holds for the rounded d iff it holds for the
\* real one.
LastRunEnd == lastRunStart + degaussDuration

\* C1: the degauss is cooldown-gated: a run that starts at t, at or after the
\* end s + d of the run before it, has strength at most
\* clamp((t - (s+d) - cooldownMin) / (fullCooldown - cooldownMin), 0, 1)^1.5
\* (stated on x, of which the strength is an increasing function).  Stated for
\* consecutive runs; the bound only grows for earlier ones.
C1_CooldownGated ==
    [][(RunStarts /\ lastRunStart # -1 /\ now >= LastRunEnd)
          => degaussX' <= XNum(now - LastRunEnd)]_vars

\* C2: no stacking: a degauss() call at t2 inside the window [t1, t1 + duration)
\* of the run that started at t1 changes nothing: startTime is and stays t1,
\* and duration, strength and lastEndTime are unchanged.
C2_NoStacking ==
    [][(lastOp'.name = "degauss" /\ lastRunStart # -1 /\ now < LastRunEnd)
          => /\ degaussStartTime = lastRunStart
             /\ UNCHANGED <<degaussStartTime, degaussDuration, degaussStrength,
                            lastDegaussEndTime>>]_vars

\* C2 witness: degauss() was called strictly inside the window of a run and
\* was ignored
C2_Witness ==
    /\ lastOp.name = "degauss"
    /\ lastRunStart > 0 /\ lastRunStart < now /\ now < LastRunEnd
    /\ degaussStartTime = lastRunStart

\* C12: a render call at time now that finds a run with startTime # 0 and
\* now - startTime >= duration ends it before compositing: the controller
\* becomes Idle (startTime = 0) with lastEndTime = now and that frame is
\* composed by the idle path without the overlay; and no frame uses the
\* warped sampling path without the overlay or the overlay without the
\* warped path.
C12_ExpiryBeforeCompositing ==
    [][lastOp'.name = "render" =>
        /\ (degaussStartTime # 0 /\ now - degaussStartTime >= degaussDuration)
              => /\ degaussStartTime' = 0
                 /\ lastDegaussEndTime' = now
                 /\ frameOut' = [path |-> "idle", overlay |-> FALSE]
        /\ (frameOut'.path = "degauss") <=> frameOut'.overlay]_vars

\* render() has just ended a run that had lasted its whole duration
C12_Witness ==
    /\ lastOp.name = "render"
    /\ lastRunStart > 0
    /\ now >= LastRunEnd
    /\ degaussStartTime = 0
    /\ lastDegaussEndTime = now
    /\ frameOut = [path |-> "idle", overlay |-> FALSE]

\* The strength of a call at time now is below 0.01
WeakCall == StrengthPct(XNum(DegaussElapsed(now, lastDegaussEndTime))) < 1

\* C13: a degauss() call that is not ignored and whose strength is below
\* 0.01 sets lastEndTime = now and starts no run (startTime, duration and
\* strength are unchanged); a press at most cooldownMin after lastEndTime is
\* such a call, so presses repeated that closely keep resetting the cooldown
\* clock and never start a run.
C13_WeakCallAdvancesCooldown ==
    [][(lastOp'.name = "degauss" /\ ~DegaussRunning(DegaussState, now)) =>
        /\ WeakCall
              => /\ lastDegaussEndTime' = now
                 /\ UNCHANGED <<degaussStartTime, degaussDuration, degaussStrength>>
        /\ (lastDegaussEndTime # 0
               /\ now - lastDegaussEndTime <= DEGAUSS_COOLDOWN_MIN_MS)
              => WeakCall]_vars

\* A press after a run has ended that only moved the cooldown clock
C13_Witness ==
    /\ lastOp.name = "degauss"
    /\ lastRunStart > 0
    /\ now >= LastRunEnd + DEGAUSS_COOLDOWN_MIN_MS
    /\ degaussStartTime = 0
    /\ lastDegaussEndTime = now

\* C14: a degauss() call from Idle (startTime = 0) that computes a strength
\* of at least 0.01 enters Active (startTime # 0) with startTime = now,
\* strength = x^1.5 and duration = durationBase * strength; the first-ever
\* trigger (lastEndTime = 0) counts as a full cooldown and gets strength 1
\* and duration durationBase; and in every state 0 <= strength <= 1 and
\* 0 <= duration <= durationBase.
C14_EntersActive ==
    [][lastOp'.name = "degauss" =>
        /\ (degaussStartTime = 0 /\ ~WeakCall)
              => /\ degaussStartTime' = now
                 /\ degaussStartTime' # 0
                 /\ degaussStrength' =
                        StrengthPct(XNum(DegaussElapsed(now, lastDegaussEndTime)))
                 /\ degaussDuration' =
                        DurationMs(XNum(DegaussElapsed(now, lastDegaussEndTime)))
        /\ (degaussStartTime = 0 /\ lastDegaussEndTime = 0)
              => /\ degaussStrength' = 100
                 /\ degaussDuration' = DEGAUSS_DURATION_BASE_MS
        /\ 0 <= degaussStrength' /\ degaussStrength' <= 100
        /\ 0 <= degaussDuration' /\ degaussDuration' <= DEGAUSS_DURATION_BASE_MS]_vars

\* C15: cooldown monotonicity: from Idle and a common lastEndTime, a trigger
\* at elapsed time e1 >= cooldownMin computes a strength no greater than a
\* trigger at any later elapsed time e2 (stated for e2 one clock step after
\* e1; the clock steps generate every later time), and the strength is
\* exactly 1 for every elapsed time >= fullCooldown.
C15_StrengthMonotone ==
    (/\ degaussStartTime = 0
     /\ lastDegaussEndTime # 0
     /\ now - lastDegaussEndTime >= DEGAUSS_COOLDOWN_MIN_MS)
        => /\ \A step \in ClockSteps :
                  CallStrength(lastDegaussEndTime, now)
                      <= CallStrength(lastDegaussEndTime, now + step)
           /\ now - lastDegaussEndTime >= DEGAUSS_COOLDOWN_MS
                  => CallStrength(lastDegaussEndTime, now) = 100

\* Idle after a run, at an elapsed time where the strength is strictly
\* between 0 and 1 and still growing
C15_Witness ==
    /\ degaussStartTime = 0
    /\ lastRunStart > 0
    /\ lastDegaussEndTime >= LastRunEnd
    /\ now - lastDegaussEndTime > DEGAUSS_COOLDOWN_MIN_MS
    /\ 0 < CallStrength(lastDegaussEndTime, now)
    /\ CallStrength(lastDegaussEndTime, now)
           < CallStrength(lastDegaussEndTime, now + DegaussGrainMs)

(***************************************************************************)
(* Claims about the pixel grid (SpecGrid)                                  *)
(***************************************************************************)

\* C3: a fresh cell that setPixel turns ON at t0 (t0 = 0 included) has
\* brightness e / fadeIn at t0 + e for 0 <= e < fadeIn and exactly 1 from
\* e >= fadeIn on.  A cell that is ON with offTimestamp = 0 has never been
\* cleared or turned OFF: it was fresh when it was turned ON at onTimestamp.
C3_FreshOnBrightness ==
    \A c \in Cells :
        (pixels[c].state /\ pixels[c].offTimestamp = 0)
            => CalculateBrightness(pixels[c], now) =
                   IF now - pixels[c].onTimestamp < CRT_FADE_IN_MS
                   THEN FadeInRamp(now - pixels[c].onTimestamp)
                   ELSE BrightDen

\* The cells of the rectangle [x..x+w) x [y..y+h) that lie on the grid
RectCells(x, y, w, h) ==
    {c \in Cells : x <= c[1] /\ c[1] < x + w /\ y <= c[2] /\ c[2] < y + h}

\* C4: clearRect is clear() restricted to the non-preserved cells of the
\* rectangle: such a cell ends OFF, with offTimestamp = now if it was ON and
\* with brightness 0 at the time of the call if it was already OFF; every
\* other cell keeps its state and both timestamps.
C4_ClearRectAsClear ==
    [][lastOp'.name = "clearRect" =>
        LET r == lastOp'.args
            P == lastOp'.preserve
        IN  \A c \in Cells :
                IF c \in RectCells(r[1], r[2], r[3], r[4]) /\ c \notin P
                THEN /\ ~pixels'[c].state
                     /\ pixels[c].state => pixels'[c].offTimestamp = now
                     /\ ~pixels[c].state => CalculateBrightness(pixels'[c], now) = 0
                ELSE pixels'[c] = pixels[c]]_vars

GridWriteOps ==
    {"setPixel", "drawPattern", "drawRectOutline", "drawRectFilled",
     "drawLineH", "drawLineV", "drawLineVDashed"}

GridClearOps == {"clear", "clearRect"}

StampChanged(c) ==
    \/ pixels'[c].onTimestamp # pixels[c].onTimestamp
    \/ pixels'[c].offTimestamp # pixels[c].offTimestamp

\* C5 as stated: in every step of a grid operation (setPixel, a draw
\* primitive, clear, clearRect) a cell's onTimestamp or offTimestamp changes
\* only if that cell's state changes in the step.
C5_StampOnlyOnChange ==
    [][lastOp'.name \in GridWriteOps \cup GridClearOps =>
        \A c \in Cells : StampChanged(c) => pixels'[c].state # pixels[c].state]_vars

\* C5, amended: in every step of setPixel or of a draw primitive a cell's
\* timestamps change only if its state changes; clear and clearRect may in
\* addition rewrite the offTimestamp (never the onTimestamp) of a cell that
\* was OFF and stays OFF.
C5_StampOnlyOnChangeOrClear ==
    [][lastOp'.name \in GridWriteOps \cup GridClearOps =>
        \A c \in Cells :
            StampChanged(c) =>
                \/ pixels'[c].state # pixels[c].state
                \/ /\ lastOp'.name \in GridClearOps
                   /\ ~pixels[c].state
                   /\ ~pixels'[c].state
                   /\ pixels'[c].onTimestamp = pixels[c].onTimestamp]_vars

\* setPixel(c, true) has just written a cell that was already ON since an
\* earlier time, and clear() has rewritten nothing of it
C5_Witness ==
    /\ lastOp.name = "setPixel"
    /\ lastOp.state
    /\ lastOp.args \in Cells
    /\ pixels[lastOp.args].state
    /\ pixels[lastOp.args].onTimestamp > 0
    /\ pixels[lastOp.args].onTimestamp < now

\* The coordinates next to the grid on every side, corners included
OutsideCoords ==
    {c \in (-1..emulatedWidth) \X (-1..emulatedHeight) : ~InBounds(c[1], c[2])}

\* C16: for every (x, y) outside [0, emulatedWidth) x [0, emulatedHeight),
\* getPixel returns false and setPixel(x, y, s) changes no cell's state or
\* timestamps; neither fails (neither indexes the grid).
C16_OutOfRangeIgnored ==
    [][/\ \A c \in OutsideCoords : GetPixel(pixels', c[1], c[2]) = FALSE
       /\ (lastOp'.name = "setPixel" /\ lastOp'.args \in OutsideCoords)
             => pixels' = pixels]_vars

\* setPixel(x, y, true) with (x, y) off the grid has just been called on a
\* grid that has a lit cell
C16_Witness ==
    /\ lastOp.name = "setPixel"
    /\ lastOp.args \in OutsideCoords
    /\ lastOp.state
    /\ \E c \in Cells : GetPixel(pixels, c[1], c[2])
    /\ \E c \in Cells : ~GetPixel(pixels, c[1], c[2])

\* C17: setPixel(x, y, s) on a cell whose state already is s leaves its
\* state and both timestamps unchanged, even if the clock has advanced; on
\* a change it stamps only onTimestamp (turning ON) or only offTimestamp
\* (turning OFF) with the current time.  No other cell is touched.
C17_SetPixelIdempotent ==
    [][(lastOp'.name = "setPixel" /\ lastOp'.args \in Cells) =>
        LET c == lastOp'.args
            st == lastOp'.state
        IN  /\ \A o \in Cells \ {c} : pixels'[o] = pixels[o]
            /\ IF pixels[c].state = st
               THEN pixels'[c] = pixels[c]
               ELSE /\ pixels'[c].state = st
                    /\ st => /\ pixels'[c].onTimestamp = now
                             /\ pixels'[c].offTimestamp = pixels[c].offTimestamp
                    /\ ~st => /\ pixels'[c].offTimestamp = now
                              /\ pixels'[c].onTimestamp = pixels[c].onTimestamp]_vars

\* setPixel(c, false) has just been called on a cell that was already OFF,
\* stamped OFF at an earlier time
C17_Witness ==
    /\ lastOp.name = "setPixel"
    /\ ~lastOp.state
    /\ lastOp.args \in Cells
    /\ ~lastOp.was
    /\ pixels[lastOp.args].offTimestamp > pixels[lastOp.args].onTimestamp
    /\ pixels[lastOp.args].offTimestamp < now

\* The times a brightness is queried at: the whole window of the clock, the
\* times before a cell's timestamps included
QueryTimes == {k * FadeGrainMs : k \in 0..(MaxGridNow \div FadeGrainMs)}

\* C18: calculateBrightness returns a value in [0, 1] for every cell state
\* reachable through setPixel, the draw primitives, clear and clearRect and
\* every query time, the times earlier than a timestamp and the backdated
\* offTimestamp of clear() included.  (Between two grains the fade-out curve
\* is evaluated at the grain below, which bounds it from above.)
C18_BrightnessInRange ==
    \A c \in Cells, q \in QueryTimes :
        /\ 0 <= CalculateBrightness(pixels[c], q)
        /\ CalculateBrightness(pixels[c], q) <= BrightDen

\* A cell carries a timestamp later than a query time, and another the
\* negative offTimestamp of an early clear()
C18_Witness ==
    /\ \E c \in Cells : pixels[c].offTimestamp < 0
    /\ \E c \in Cells, q \in QueryTimes :
           /\ ~pixels[c].state
           /\ q < pixels[c].offTimestamp
    /\ \E c \in Cells, q \in QueryTimes :
           /\ pixels[c].state
           /\ q < pixels[c].onTimestamp

\* (1 - e / fadeOut)^6 as a numerator over BrightDen, for e on the grain:
\* r / FadeOutGrains = 1 - e / fadeOut
SixthPowerFade(e) ==
    LET r == CHOOSE k \in 0..FadeOutGrains :
                 k * CRT_FADE_OUT_MS = FadeOutGrains * (CRT_FADE_OUT_MS - e)
    IN  (BrightDen \div Pow6(FadeOutGrains)) * Pow6(r)

FadeElapsed == {k * FadeGrainMs : k \in 0..(FadeOutGrains + 2)}

C20_ClearedOffStaysDark ==
    \A c \in offAtClear, e \in FadeElapsed :
        CalculateBrightness(pixels[c], now + e) = 0

\* C21: after clear() at time t every cell has state = false (getPixel is
\* false everywhere), every cell that was ON has offTimestamp = t, and no
\* onTimestamp is modified.
C21_ClearTurnsAllOff ==
    [][lastOp'.name = "clear" =>
        \A c \in Cells :
            /\ ~pixels'[c].state
            /\ GetPixel(pixels', c[1], c[2]) = FALSE
            /\ pixels[c].state => pixels'[c].offTimestamp = now
            /\ pixels'[c].onTimestamp = pixels[c].onTimestamp]_vars

\* clear() has just run, at a time after 0, on a grid that had a cell lit
\* since an earlier time and a cell that was OFF
C21_Witness ==
    /\ lastOp.name = "clear"
    /\ now > 0
    /\ \E c \in Cells :
           /\ pixels[c].offTimestamp = now
           /\ pixels[c].onTimestamp > 0
           /\ pixels[c].onTimestamp < now
    /\ \E c \in Cells : pixels[c].offTimestamp = now - CRT_FADE_OUT_MS - 1

\* C22: drawRectFilled(x, y, w, h) clips to the grid: for integer x, y
\* (negative ones included) and w, h >= 0 it turns ON exactly the cells of
\* [x, x+w) x [y, y+h) that lie on the grid and changes no cell outside
\* that rectangle.
C22_FilledRectClips ==
    [][lastOp'.name = "drawRectFilled" =>
        LET r == lastOp'.args
        IN  \A c \in Cells :
                IF c \in RectCells(r[1], r[2], r[3], r[4])
                THEN pixels'[c].state
                ELSE pixels'[c] = pixels[c]]_vars

\* Row 0, row height - 1 and the cells (midX, y) with even y
CourtCells ==
    {c \in Cells : \/ c[2] = 0
                   \/ c[2] = emulatedHeight - 1
                   \/ (c[1] = emulatedWidth \div 2 /\ c[2] % 2 = 0)}

\* The display calls the overlays draw with: setPixel(x, y, true) and the
\* draw primitives
OverlayDrawStep ==
    \/ lastOp'.name \in GridWriteOps \ {"setPixel"}
    \/ lastOp'.name = "setPixel" /\ lastOp'.state

\* C27: after maintainCourt every cell of row 0, of row height - 1 and every
\* cell (midX, y) with even y is ON, and each of them is still ON after any
\* subsequent sequence of overlay draw operations, because no draw operation
\* turns a cell OFF.
C27_CourtStaysOn ==
    [][/\ courtDrawn' => \A c \in CourtCells : pixels'[c].state
       /\ OverlayDrawStep =>
              \A c \in Cells : pixels[c].state => pixels'[c].state]_vars

\* Two overlay draws after maintainCourt, the second one later than the court
C27_Witness ==
    /\ courtDrawn
    /\ gridOps = 3
    /\ lastOp.name = "drawRectOutline"
    /\ \A c \in CourtCells : pixels[c].state
    /\ \E c \in CourtCells : pixels[c].onTimestamp < now
    /\ \E c \in Cells \ CourtCells : pixels[c].state

\* C30: a cell that was ON when clear() ran at time t > 0 fades out: its
\* brightness at t + e is (1 - e / fadeOut)^6 > 0 for every 0 <= e < fadeOut,
\* whatever grid operations other than turning it back on happen in that
\* window, a following clear() included.
C30_ClearedOnFadesOut ==
    \A p \in litAtClear :
        (p[2] > 0 /\ now - p[2] < CRT_FADE_OUT_MS) =>
            /\ CalculateBrightness(pixels[p[1]], now) = SixthPowerFade(now - p[2])
            /\ CalculateBrightness(pixels[p[1]], now) > 0

(***************************************************************************)
(* Claims about the game state machine and the game loop (SpecGame)        *)
(***************************************************************************)
ClaimedEdges ==
    {<<"MENU", "COUNTDOWN">>, <<"COUNTDOWN", "PLAYING">>, <<"PLAYING", "PAUSED">>,
     <<"PAUSED", "PLAYING">>, <<"PLAYING", "GAME_OVER">>, <<"GAME_OVER", "MENU">>}

\* C6 as stated: every change of gameState, under any sequence of key
\* presses, clicks and frame callbacks, follows one of the edges
\* MENU->COUNTDOWN, COUNTDOWN->PLAYING, PLAYING->PAUSED, PAUSED->PLAYING,
\* PLAYING->GAME_OVER, GAME_OVER->MENU.
C6_ClaimedEdges ==
    [][game'.gameState # game.gameState
          => <<game.gameState, game'.gameState>> \in ClaimedEdges]_vars

ActualEdges ==
    {<<"MENU", "COUNTDOWN">>, <<"COUNTDOWN", "PLAYING">>, <<"PLAYING", "PAUSED">>,
     <<"PAUSED", "COUNTDOWN">>, <<"PLAYING", "GAME_OVER">>, <<"GAME_OVER", "MENU">>,
     <<"MENU", "GAME_OVER">>}

\* C6, amended: every change of gameState follows one of the edges
\* MENU->COUNTDOWN, COUNTDOWN->PLAYING, PLAYING->PAUSED, PAUSED->COUNTDOWN
\* (the pause key resumes through a new countdown), PLAYING->GAME_OVER,
\* GAME_OVER->MENU, or MENU->GAME_OVER (the debug keys, in a build with the
\* debug screens); there is no direct edge PAUSED->PLAYING.
C6_ActualEdges ==
    [][game'.gameState # game.gameState
          => /\ <<game.gameState, game'.gameState>> \in ActualEdges
             /\ <<game.gameState, game'.gameState>> = <<"MENU", "GAME_OVER">>
                    => DEBUG_SCREENS_ENABLED /\ lastOp'.name = "keydown"]_vars

\* The pause key has just taken PAUSED to the resume countdown
C6_Witness ==
    /\ lastOp.name = "keydown"
    /\ lastOp.key = "p"
    /\ game.gameState = "COUNTDOWN"
    /\ game.resumingFromPause
    /\ game.score.left + game.score.right > 0

\* C7: every simulation step (updateLogic) starts with gameState = PLAYING;
\* in no frame does physics advance while the state is MENU, COUNTDOWN,
\* PAUSED or GAME_OVER.
C7_StepsOnlyWhenPlaying ==
    lastOp.name = "frame"
        => \A i \in 1..Len(lastOp.stepStates) : lastOp.stepStates[i] = "PLAYING"

\* C8: the alpha = accumulator / DT_MS that a frame callback passes to
\* drawCurrentFrame and render satisfies 0 <= alpha < 1.
C8_AlphaIsFraction ==
    lastOp.name = "frame" => (0 <= accumulator /\ accumulator < DtNum)

\* C9 as stated: in every frame callback the delta added to the accumulator
\* is at most MAX_FRAME_MS, the number of steps run is
\* min(MAX_UPDATES_PER_FRAME, floor(accumulator / DT_MS)) and so at most 5,
\* each step subtracts exactly DT_MS, and the accumulator never becomes
\* negative.
C9_DrainEveryFrame ==
    lastOp.name = "frame"
        => /\ lastOp.frameMs <= MAX_FRAME_MS
           /\ lastOp.n = Min(MAX_UPDATES_PER_FRAME, lastOp.drained \div DtNum)
           /\ lastOp.n <= 5
           /\ accumulator = lastOp.drained - lastOp.n * DtNum
           /\ accumulator >= 0

\* C9, amended: in every frame callback the delta added to the accumulator
\* is at most MAX_FRAME_MS and the accumulator never becomes negative; in a
\* callback that observes PLAYING the number of steps run is
\* min(MAX_UPDATES_PER_FRAME, floor(accumulator / DT_MS)), taken after the
\* delta is added and the entry reset applied, and each step subtracts
\* exactly DT_MS; in a callback that observes any other state no step runs
\* and the accumulator is not drained, however large it is.
C9_DrainWhenPlaying ==
    lastOp.name = "frame"
        => /\ lastOp.frameMs <= MAX_FRAME_MS
           /\ lastOp.n = IF prevGameState = "PLAYING"
                         THEN Min(MAX_UPDATES_PER_FRAME, lastOp.drained \div DtNum)
                         ELSE 0
           /\ lastOp.n <= 5
           /\ accumulator = lastOp.drained - lastOp.n * DtNum
           /\ accumulator >= 0

\* A PLAYING callback after a stall: the delta was clamped, five steps ran
\* and more than five were due
C9_Witness ==
    /\ lastOp.name = "frame"
    /\ prevGameState = "PLAYING"
    /\ lastOp.frameMs = MAX_FRAME_MS
    /\ lastOp.n = MAX_UPDATES_PER_FRAME
    /\ lastOp.drained \div DtNum > MAX_UPDATES_PER_FRAME
    /\ accumulator >= DtNum

\* C10: on the first frame callback that observes PLAYING after a callback
\* that observed another state, the accumulator is reset to 0 before
\* draining, so that callback runs zero simulation steps however much time
\* accumulated before.
C10_ResetOnEntry ==
    (lastOp.name = "frame" /\ prevGameState = "PLAYING" /\ lastOp.prev # "PLAYING")
        => /\ lastOp.drained = 0
           /\ lastOp.n = 0
           /\ accumulator = 0

\* Such a callback, with more than a step's worth of time accumulated during
\* the countdown
C10_Witness ==
    /\ lastOp.name = "frame"
    /\ prevGameState = "PLAYING"
    /\ lastOp.prev = "COUNTDOWN"
    /\ lastOp.added >= MAX_UPDATES_PER_FRAME * DtNum
    /\ lastOp.n = 0
    /\ accumulator = 0

\* C11: in a frame callback that observes PLAYING, every simulation step of
\* the frame is complete when drawCurrentFrame is called (the positions the
\* call reads are those the frame ends with), and the prevState it receives
\* holds the ball and paddle positions as they were immediately before the
\* last step of the frame, or the current positions when no step ran.
C11_SnapshotBeforeLastStep ==
    (lastOp.name = "frame" /\ prevGameState = "PLAYING" /\ lastOp.draw # <<>>)
        => /\ lastOp.draw[1].current = Snapshot(game)
           /\ lastOp.draw[1].prevState =
                  IF lastOp.n = 0 THEN << Snapshot(game) >> ELSE lastOp.lastBefore

\* A PLAYING callback that ran several steps and then drew, the ball having
\* moved in the last of them
C11_Witness ==
    /\ lastOp.name = "frame"
    /\ prevGameState = "PLAYING"
    /\ lastOp.n >= 2
    /\ lastOp.draw # <<>>
    /\ lastOp.draw[1].prevState # <<>>
    /\ lastOp.draw[1].prevState[1].ball # Snapshot(game).ball

\* The values pauseGame() saves, as the game holds them
PauseValues(g) ==
    [ball |-> g.ball, leftPaddle |-> g.leftPaddle,
     rightPaddle |-> g.rightPaddle, score |-> g.score]

\* C25: pause round trip: pausing in PLAYING and later unpausing restores the
\* ball's position and velocity, both paddle positions and both scores to
\* their values at the moment of the pause, and they are still the same when
\* the resume countdown hands control back to PLAYING (no re-serve).
C25_PauseRoundTrip ==
    [][/\ (game.gameState = "PLAYING" /\ game'.gameState = "PAUSED") =>
              pausedAt' = << PauseValues(game) >>
       /\ (game.gameState = "PAUSED" /\ game'.gameState # "PAUSED") =>
              /\ game'.gameState = "COUNTDOWN"
              /\ << PauseValues(game') >> = pausedAt
       /\ (pausedAt # <<>> /\ game.gameState = "COUNTDOWN"
           /\ game'.gameState = "PLAYING") =>
              << PauseValues(game') >> = pausedAt]_vars

\* The resume countdown has just handed over to PLAYING with the ball where
\* the pause found it: off the centre, where no serve starts
C25_Witness ==
    /\ lastOp.name = "frame"
    /\ prevGameState = "COUNTDOWN"
    /\ game.gameState = "PLAYING"
    /\ game.ball.y # BallStartY
    /\ game.ball.vx # 0
    /\ inputs = 3

\* C29: each drawCountdown call decrements countdownNumber by exactly 1 and
\* restarts the 750 ms window when at least 750 ms have elapsed since
\* countdownStartTime, and leaves it unchanged otherwise; gameState becomes
\* PLAYING exactly when the number would drop below 1, so a countdown started
\* at 3 reaches PLAYING no earlier than 2250 ms after it started.
C29_CountdownSteps ==
    [][lastOp'.name = "drawCountdown" =>
        LET expired == lastOp'.elapsed >= 750
        IN  /\ expired =>
                /\ game'.countdownNumber = game.countdownNumber - 1
                /\ game'.countdownElapsed = 0
            /\ ~expired =>
                /\ game'.countdownNumber = game.countdownNumber
                /\ game'.countdownElapsed = lastOp'.elapsed
            /\ (game'.gameState = "PLAYING") <=>
                   (expired /\ game.countdownNumber - 1 < 1)
            /\ game'.gameState # "PLAYING" => game'.gameState = "COUNTDOWN"
            /\ game'.gameState = "PLAYING" => countdownMs' >= 2250]_vars

\* The countdown of a new game has just ended with its third expiry, later
\* than the earliest possible time, and the ball is served
C29_Witness ==
    /\ lastOp.name = "drawCountdown"
    /\ game.gameState = "PLAYING"
    /\ game.countdownNumber = 0
    /\ countdownMs >= 2250
    /\ lastOp.elapsed >= 750
    /\ game.ball.vx # 0
    /\ ~game.resumingFromPause

(***************************************************************************)
(* Claims about checkGameEnd, updateBall and checkPaddleCollision          *)
(* (SpecBall).                                                             *)
(***************************************************************************)

\* C23: checkGameEnd sets gameState = GAME_OVER with winner = 'left' when
\* score.left >= 5, and with winner = 'right' when score.right >= 5, and
\* stops the ball; when both scores are below 5 it leaves gameState and
\* winner unchanged.
C23_CheckGameEnd ==
    [][lastOp'.name = "checkGameEnd" =>
        LET b == lastOp'.before
            over == /\ game'.gameState = "GAME_OVER"
                    /\ game'.ball.vx = 0 /\ game'.ball.vy = 0
        IN  /\ b.score.left >= 5 => over /\ game'.winner = "left"
            /\ b.score.right >= 5 => over /\ game'.winner = "right"
            /\ (b.score.left < 5 /\ b.score.right < 5) =>
                   /\ game'.gameState = b.gameState
                   /\ game'.winner = b.winner]_vars

C23_Witness ==
    /\ lastOp.name = "checkGameEnd"
    /\ lastOp.before.score.right >= 5
    /\ lastOp.before.ball.vx # 0
    /\ game.winner = "right"
    /\ game.gameState = "GAME_OVER"

\* The ball after resetBall(): at the centre, moving on both axes, with the
\* volley count and the speed multiplier reset
Served(g) ==
    /\ g.ball.x = (width \div 2) * FP
    /\ g.ball.y = (height \div 2) * FP
    /\ g.ball.vx # 0
    /\ g.ball.vy # 0
    /\ g.volleyCount = 0
    /\ g.speedNum = SpeedDen

\* C24: whenever updateBall moves the ball to x < 0 (resp. x >= width),
\* exactly the right (resp. left) score increases by 1, and the ball is
\* placed at (floor(width/2), floor(height/2)) with vx # 0 and vy # 0 for
\* every random outcome, with volleyCount 0 and the speed multiplier 1.
C24_GoalScoresAndServes ==
    [][lastOp'.name = "updateBall" =>
        LET b == lastOp'.before
            x1 == b.ball.x + b.ball.vx
        IN  /\ x1 < 0 =>
                /\ game'.score = [left |-> b.score.left,
                                  right |-> b.score.right + 1]
                /\ Served(game')
            /\ x1 >= width * FP =>
                /\ game'.score = [left |-> b.score.left + 1,
                                  right |-> b.score.right]
                /\ Served(game')]_vars

C24_Witness ==
    /\ lastOp.name = "updateBall"
    /\ lastOp.before.ball.x + lastOp.before.ball.vx >= width * FP
    /\ lastOp.before.volleyCount > 0
    /\ game.score.left = lastOp.before.score.left + 1
    /\ game.volleyCount = 0

\* C28: checkPaddleCollision(paddle) returns true exactly when ball.x is in
\* [paddle.x, paddle.x + width) and ball.y is in [paddle.y, paddle.y +
\* height); when it returns true the sign of ball.vx is reversed, volleyCount
\* increases by 1 and |ball.vy| <= 0.8 * BALL_SPEED * MAX_SPEED_MULTIPLIER;
\* when it returns false the ball's velocity, volleyCount and the speed
\* multiplier are unchanged.
C28_PaddleCollision ==
    [][lastOp'.name = "checkPaddleCollision" =>
        LET b == lastOp'.before
            paddle == lastOp'.paddle
            inside == /\ paddle.x * FP <= b.ball.x
                      /\ b.ball.x < paddle.x * FP + PADDLE_WIDTH * FP
                      /\ paddle.y <= b.ball.y
                      /\ b.ball.y < paddle.y + PADDLE_HEIGHT * FP
        IN  /\ lastOp'.returned = inside
            /\ lastOp'.returned =>
                /\ game'.ball.vx * b.ball.vx < 0
                /\ game'.volleyCount = b.volleyCount + 1
                /\ 10 * SpeedDen * Abs(game'.ball.vy)
                       <= 8 * BALL_SPEED * MaxSpeedNum
            /\ ~lastOp'.returned =>
                /\ game'.ball = b.ball
                /\ game'.volleyCount = b.volleyCount
                /\ game'.speedNum = b.speedNum]_vars

C28_Witness ==
    /\ lastOp.name = "checkPaddleCollision"
    /\ lastOp.returned
    /\ lastOp.before.ball.y = lastOp.paddle.y + PADDLE_HEIGHT * FP - 1
    /\ lastOp.before.ball.x = lastOp.paddle.x * FP
    /\ game.ball.vx * lastOp.before.ball.vx < 0
    /\ game.volleyCount = lastOp.before.volleyCount + 1

(***************************************************************************)
(* Claims about the render loop (SpecLoop).                                *)
(***************************************************************************)

\* C26: for any sequence of start() and stop() calls at most one render loop
\* is scheduled at a time, start() while running is a no-op, and after
\* stop() no frame is rendered until the next start().
C26_OneLoopAndStopHalts ==
    [][/\ Cardinality(rafPending') <= 1
       /\ (lastOp'.name = "start" /\ isRunning) => UNCHANGED loopVars
       /\ (lastOp'.name = "stop") => ~isRunning' /\ rafPending' = {}
       /\ (~isRunning /\ framesRendered' # framesRendered) =>
              lastOp'.name = "start"]_vars

\* start() was called on a display whose loop had already rendered twice
C26_Witness ==
    /\ lastOp.name = "start"
    /\ lastOp.wasRunning
    /\ framesRendered >= 2
    /\ Cardinality(rafPending) = 1

(***************************************************************************)
(* Liveness of the degauss controller (SpecDegaussLive).                   *)
(***************************************************************************)

\* C31: if render() keeps being called with an advancing clock, every
\* degauss run that becomes Active eventually returns to Idle, for any
\* interleaving of further degauss() triggers with the render calls.
C31_ActiveReturnsToIdle == (degaussStartTime # 0) ~> (degaussStartTime = 0)

(***************************************************************************)
(* Liveness of the countdown (SpecCountdownLive).                          *)
(***************************************************************************)

\* C32: from gameState = COUNTDOWN, if frame callbacks keep occurring and
\* the clock keeps advancing, gameState eventually becomes PLAYING; no key
\* press or click leaves COUNTDOWN by another edge (the only state that
\* follows COUNTDOWN is PLAYING) or holds the game in it (an input event
\* changes neither the number shown nor the time it has been shown for).
C32_CountdownReachesPlaying ==
    /\ (game.gameState = "COUNTDOWN") ~> (game.gameState = "PLAYING")
    /\ [][/\ game.gameState = "COUNTDOWN"
             => game'.gameState \in {"COUNTDOWN", "PLAYING"}
          /\ lastOp'.name \in {"keydown", "keyup", "click"}
             => /\ game'.gameState = game.gameState
                /\ game'.countdownNumber = game.countdownNumber
                /\ game'.countdownElapsed = game.countdownElapsed]_vars

\* A key was pressed in the middle of a countdown that later reached PLAYING
C32_Witness ==
    /\ game.gameState = "PLAYING"
    /\ lastOp.name = "frame"
    /\ prevGameState = "COUNTDOWN"
    /\ keysDown # {}
    /\ countdownMs >= 3 * countdownDuration

(***************************************************************************)
(* Claims about the degauss sampling loop (SpecSample).                    *)
(***************************************************************************)

\* C33: in the degauss render path, every output grid coordinate (x, y) of
\* the grid samples exactly one source cell, whose indices satisfy
\* 0 <= ix < emulatedWidth and 0 <= iy < emulatedHeight for every
\* displacement: no out-of-range cell is read, no output cell is skipped.
C33_SampleInRange ==
    lastOp.name = "sample" =>
        /\ DOMAIN lastOp.src = Cells
        /\ \A c \in Cells :
               /\ lastOp.src[c][1] \in 0..(emulatedWidth - 1)
               /\ lastOp.src[c][2] \in 0..(emulatedHeight - 1)

\* A pass whose displacement points past the grid on both sides, in both
\* directions
C33_Witness ==
    /\ lastOp.name = "sample"
    /\ lastOp.dx[0] = 18
    /\ lastOp.dx[emulatedWidth - 1] = -18
    /\ lastOp.dy[0] = 18
    /\ lastOp.dy[emulatedHeight - 1] = -18
    /\ lastOp.src[<<0, 0>>] = <<0, 0>>
    /\ lastOp.src[<<emulatedWidth - 1, emulatedHeight - 1>>]
           = <<emulatedWidth - 1, emulatedHeight - 1>>

(***************************************************************************)
(* Claims about _canDrawPixel (SpecCanDraw).                               *)
(***************************************************************************)

\* C34: _canDrawPixel(px, py, opts) returns false exactly when
\* px = floor(width/2) or py = 0 or py = height - 1, or when
\* opts.excludeButton is set and px > width - BUTTON_PADDING and
\* centerY - BUTTON_PADDING_V < py < centerY + BUTTON_PADDING_V (strict
\* bounds); it returns true for every other point, and the button region is
\* not excluded when excludeButton is false or omitted.
C34_CanDrawPixel ==
    lastOp.name = "canDrawPixel" =>
        LET onCourtLine == \/ 2 * lastOp.px \in {lastOp.w, lastOp.w - 1}
                           \/ lastOp.py = 0
                           \/ lastOp.py = lastOp.h - 1
            twiceCenterY == IF lastOp.h % 2 = 0 THEN lastOp.h ELSE lastOp.h - 1
            inButton == /\ lastOp.px > lastOp.w - BUTTON_PADDING
                        /\ 2 * lastOp.py > twiceCenterY - 2 * BUTTON_PADDING_V
                        /\ 2 * lastOp.py < twiceCenterY + 2 * BUTTON_PADDING_V
        IN  lastOp.result = ~(onCourtLine \/ (lastOp.opts = "true" /\ inButton))

\* A call on the first column and the first row inside the button region
\* that is refused with excludeButton
C34_Witness ==
    /\ lastOp.name = "canDrawPixel"
    /\ lastOp.w = 160
    /\ lastOp.px = 131
    /\ lastOp.py = 36
    /\ lastOp.opts = "true"
    /\ ~lastOp.result

(***************************************************************************)
(* Claims about the simulation steps of a game (SpecSteps).                *)
(***************************************************************************)

\* C35: for a game started with startNewGame, after every simulation step
\* both scores are in 0..5 and at most one of them is 5, and whenever
\* gameState = PLAYING at the end of a step both scores are below 5.
C35_ScoresBounded ==
    lastOp.name = "updateLogic" =>
        /\ game.score.left \in 0..GOALS_TO_WIN
        /\ game.score.right \in 0..GOALS_TO_WIN
        /\ ~(game.score.left = GOALS_TO_WIN /\ game.score.right = GOALS_TO_WIN)
        /\ game.gameState = "PLAYING" =>
               /\ game.score.left < GOALS_TO_WIN
               /\ game.score.right < GOALS_TO_WIN

\* A step taken after the game was won 5 : 4
C35_Witness ==
    /\ lastOp.name = "updateLogic"
    /\ lastOp.before = "GAME_OVER"
    /\ game.gameState = "GAME_OVER"
    /\ game.score.left = GOALS_TO_WIN
    /\ game.score.right = GOALS_TO_WIN - 1

(***************************************************************************)
(* Claims about the pause snapshot (SpecGame).                             *)
(***************************************************************************)

\* C36: in every reachable state savedState is non-null if and only if
\* gameState = PAUSED; the pause key outside PLAYING and PAUSED changes
\* nothing, and no other event (a frame, a click, another key, a key
\* release) leaves PAUSED or clears the snapshot.
C36_SavedIffPaused ==
    /\ [](game.savedState # <<>> <=> game.gameState = "PAUSED")
    /\ [][LET pauseKey == lastOp'.name = "keydown" /\ lastOp'.key = "p"
          IN  /\ (pauseKey /\ game.gameState \notin {"PLAYING", "PAUSED"})
                     => game' = game
              /\ (~pauseKey /\ game.gameState = "PAUSED")
                     => /\ game'.gameState = "PAUSED"
                        /\ game'.savedState = game.savedState]_vars

\* Enter was pressed while the game was paused, and the pause is still on
C36_Witness ==
    /\ game.gameState = "PAUSED"
    /\ game.savedState # <<>>
    /\ lastOp.name = "keydown"
    /\ lastOp.key = "Enter"

(***************************************************************************)
(* Claims about updatePaddle (SpecPaddle).                                 *)
(***************************************************************************)

\* C37: after every updatePaddle call, for keyboard and AI controllers alike
\* and for any controller output, 1 <= paddle.y and
\* paddle.y + paddle.height <= height - 1: a paddle never overlaps the top
\* or the bottom wall row.
C37_PaddleInsideWalls ==
    lastOp.name = "updatePaddle" =>
        /\ FP <= lastOp.y
        /\ lastOp.y + PADDLE_HEIGHT * FP <= (lastOp.h - 1) * FP

\* An AI controller put the paddle far below the court and the clamp brought
\* it back to the bottom wall
C37_Witness ==
    /\ lastOp.name = "updatePaddle"
    /\ lastOp.controller = "ai"
    /\ lastOp.h = 120
    /\ lastOp.before + lastOp.ai > lastOp.h * FP
    /\ lastOp.y = (lastOp.h - 1 - PADDLE_HEIGHT) * FP

(***************************************************************************)
(* Claims about the speed of the ball in a rally (SpecRally).              *)
(***************************************************************************)

\* C38: the per-volley speed-up is capped at 2x: after any number of paddle
\* hits within one rally, |ball.vx| is at most MAX_SPEED_MULTIPLIER (2.0)
\* times the horizontal speed the ball was served with.
C38_SpeedCapped ==
    Abs(game.ball.vx) * SpeedDen <= MaxSpeedNum * lastOp.served

=============================================================================
